---- MODULE Spec2Model ----
(***************************************************************************)
(* The completion waits of the Aether Python SDK:                          *)
(*   AetherClient.wait_for_transaction   (sdk/python/src/aether/client.py) *)
(*   AIJobHelper.wait_for_job_completion (sdk/python/src/aether/ai.py)     *)
(* run as asyncio tasks on one event loop, against one AetherClient.       *)
(*                                                                         *)
(* Time is the event loop's clock, in whole ticks (one tick = one second   *)
(* in the scenario specification).  A task runs from one await to the next *)
(* without the clock moving; the clock moves only while every started wait *)
(* is suspended in an await (the HTTP post of a probe, or asyncio.sleep).  *)
(*                                                                         *)
(* The calls made outside the waits are modelled as a second machine on    *)
(* variables of their own: the builders of both packages, aether's         *)
(* TransactionBuilder with its codec and signing and aether_sdk's          *)
(* TransferBuilder, Transaction and submit (SpecBuild), and the calls of   *)
(* AIJobHelper (SpecJob) and AetherClient (SpecSend) that reach _call.     *)
(* Such a call takes the client's next request id, posts, and is suspended *)
(* in `await self._client.post` until the node's answer arrives; other     *)
(* tasks run meanwhile, and answers arrive in any order.  Python integers  *)
(* are kept exact, as base-256 digits; SHA-256 and Ed25519 are ideal.      *)
(***************************************************************************)
EXTENDS Integers, Sequences, FiniteSets, TLC

\* ------------------------------------------------------------------ bounds
MaxTimeout == 3      \* largest timeout argument, in ticks
MaxPoll == 2         \* largest poll_interval argument, in ticks
MaxProbeDur == 2     \* longest round trip of one RPC call, in ticks
MaxStart == 1        \* latest tick at which a wait that runs alone is called
MaxConcTimeout == 2  \* largest timeout of the waits that run concurrently
MaxConcPoll == 2     \* largest poll interval of the waits that run concurrently
MaxConcProbeDur == 1 \* longest round trip while waits run concurrently
MaxConcStart == 1    \* latest tick at which the second concurrent wait is called

\* the wait tasks that exist
Waits == {1, 2}

\* ------------------------------------------------------- program constants
\* aether_sdk ClientConfig: the fee and gas limit a TransferBuilder starts with
default_fee == 2000000
default_gas_limit == 500000
\* aether_sdk Transaction.__post_init__: the shortest signature string taken
MinSignatureLen == 66

\* ------------------------------------------------------------------ values
\* types.py: JobStatus
JobStatus == {"pending", "assigned", "computing", "completed", "challenged", "settled"}
\* types.py: TransactionReceipt.status
ReceiptStatus == {"success", "failed"}

\* Python's None
NoneVal == [type |-> "None", status |-> "none"]
\* an AIJob(**data) / TransactionReceipt(**data) built from the node's answer
AIJob(s) == [type |-> "AIJob", status |-> s]
TransactionReceipt(s) == [type |-> "TransactionReceipt", status |-> s]
\* _call raising Exception("RPC Error ...") or Exception("HTTP error ...")
RpcError == [type |-> "RpcError", status |-> "none"]
\* a result that is not null and that AIJob(**data) / TransactionReceipt(**data)
\* does not take: an object without the dataclass's fields, such as {"x": 1}
Malformed == [type |-> "Malformed", status |-> "none"]
\* TransactionReceipt(**data) raising TypeError
ConstructError == [type |-> "TypeError", status |-> "none"]
\* the HTTP post of a probe has not come back yet
InFlight == [type |-> "InFlight", status |-> "none"]

\* what _call can come back with, for ai_getJob and for getTransactionReceipt
RpcResults(k) ==
    IF k = "job"
    THEN {RpcError, NoneVal, Malformed} \cup {AIJob(s) : s \in JobStatus}
    ELSE {RpcError, NoneVal, Malformed}
         \cup {TransactionReceipt(s) : s \in ReceiptStatus}

\* ------------------------------------------------------------------- state
VARIABLES
    now,            \* asyncio.get_event_loop().time()
    request_id,     \* AetherClient._request_id
    pc,             \* where each wait is: idle, probing, sleeping, done
    kind,           \* "tx": wait_for_transaction, "job": wait_for_job_completion
    timeout,        \* the timeout argument
    poll_interval,  \* the poll_interval argument
    start_time,     \* the local start_time
    wake,           \* when the await a wait is suspended in completes
    fetched,        \* the local job / receipt: what the last probe returned
    nsleeps,        \* asyncio.sleep(poll_interval) calls made so far
    obs,            \* the probes issued: elapsed time at issue, round trip, answer
    outcome,        \* how the wait ended: return, or the exception raised
    result,         \* the value returned
    end_time        \* the clock when the wait ended

\* the state of the library calls made outside the waits
VARIABLES
    ret,            \* the last library call: its name, how it ended, its value
    sent,           \* the JSON-RPC requests the job helper has posted
    tb,             \* the fields of a TransactionBuilder (aether)
    xb,             \* the fields of a TransferBuilder (aether_sdk)
    held,           \* a Transaction object the caller kept from a sign
    submits,        \* the submit_job calls running as tasks on the client
    closed,         \* the client's httpx.AsyncClient has been closed
    flight          \* the calls suspended in _call's `await self._client.post`

libvars == <<ret, sent, tb, xb, held, submits, closed, flight>>

vars == <<now, request_id, pc, kind, timeout, poll_interval, start_time, wake,
          fetched, nsleeps, obs, outcome, result, end_time, ret, sent, tb, xb,
          held, submits, closed, flight>>

NoOutcome == [kind |-> "none", msg |-> "none"]
Returned == [kind |-> "return", msg |-> "none"]
Raise(k, m) == [kind |-> k, msg |-> m]

\* -------------------------------------------------------- the probe calls
\* AIJobHelper.get_job: AIJob(**data) if data else None; any exception -> None
get_job(r) ==
    IF r.type = "RpcError" THEN NoneVal
    ELSE IF r.type = "AIJob" THEN r ELSE NoneVal

\* AetherClient.get_transaction_receipt: _call's exception propagates (here:
\* the RpcError value is handed on); None if data is None; otherwise
\* TransactionReceipt(**data), which raises TypeError on data that is not a
\* receipt's (here: the ConstructError value is handed on)
get_transaction_receipt(r) ==
    IF r.type = "RpcError" THEN RpcError
    ELSE IF r.type = "None" THEN NoneVal
    ELSE IF r.type = "TransactionReceipt" THEN r
    ELSE ConstructError

Probe(k, r) == IF k = "job" THEN get_job(r) ELSE get_transaction_receipt(r)

\* ------------------------------------------------------ the loop's bodies
\* the statuses wait_for_job_completion returns on
IsTerminalBroken(s) == s = "settled"
IsTerminal(s) == s \in {"completed", "settled"}

\* the status wait_for_job_completion raises on
IsChallengedBroken(s) == FALSE
IsChallenged(s) == s = "challenged"

\* the exception raised when the while condition fails
DeadlineErrorBroken == Raise("ValueError", "timeout")
DeadlineError == Raise("TimeoutError", "timeout")

\* wait_for_job_completion, from the end of `await self.get_job` to the next
\* await: what the loop body does with the job it fetched
JobBody(job) ==
    IF job = NoneVal THEN [act |-> "raise", exc |-> Raise("ValueError", "not found")]
    ELSE IF IsTerminal(job.status) THEN [act |-> "return", exc |-> Returned]
    ELSE IF IsChallenged(job.status)
         THEN [act |-> "raise", exc |-> Raise("ValueError", "challenged")]
    ELSE [act |-> "sleep", exc |-> NoOutcome]

\* a receipt object is truthy whatever its status
ReceiptTruthyBroken(receipt) == receipt.type = "TransactionReceipt" /\ receipt.status = "success"
ReceiptTruthy(receipt) == receipt.type = "TransactionReceipt"

TxBodyFailedRaises(receipt) ==
    IF receipt = RpcError THEN [act |-> "raise", exc |-> Raise("Exception", "rpc")]
    ELSE IF receipt = ConstructError
         THEN [act |-> "raise", exc |-> Raise("TypeError", "TransactionReceipt")]
    ELSE IF receipt = TransactionReceipt("failed")
         THEN [act |-> "raise", exc |-> Raise("ValueError", "failed")]
    ELSE IF ReceiptTruthy(receipt) THEN [act |-> "return", exc |-> Returned]
    ELSE [act |-> "sleep", exc |-> NoOutcome]

\* wait_for_transaction, from the end of `await self.get_transaction_receipt`
\* to the next await: an exception of the probe propagates out of the loop
TxBody(receipt) ==
    IF receipt = RpcError THEN [act |-> "raise", exc |-> Raise("Exception", "rpc")]
    ELSE IF receipt = ConstructError
         THEN [act |-> "raise", exc |-> Raise("TypeError", "TransactionReceipt")]
    ELSE IF ReceiptTruthy(receipt) THEN [act |-> "return", exc |-> Returned]
    ELSE [act |-> "sleep", exc |-> NoOutcome]

Body(k, v) == IF k = "job" THEN JobBody(v) ELSE TxBody(v)

\* the while condition: loop.time() - start_time < timeout
LoopGuardBroken(elapsed, to) == elapsed <= to
LoopGuard(elapsed, to) == elapsed < to

\* the clock the while condition reads against: the wait's own start_time
ElapsedShared(w, st) == now - (IF pc[1] = "idle" THEN st ELSE start_time[1])
Elapsed(w, st) == now - st

\* when asyncio.sleep(poll_interval) resumes the task
SleepUntilBroken(p) == now + 2 * p
SleepUntil(p) == now + p

\* `return job` / `return receipt`: the value the probe just fetched
ReturnValueBroken(w, v) == IF fetched[w] = InFlight THEN v ELSE fetched[w]
ReturnValue(w, v) == v

\* ------------------------------------------------- library calls: values
\* Python's None where a field or an attribute has no value
None == [t |-> "None"]

\* the submit_job tasks that exist, and one that has not been called
SubmitTasks == {1, 2}
NotCalled == [pc |-> "idle"]

\* no library call has been made yet
NoCall == [op |-> "none", outcome |-> NoOutcome, value |-> None]

\* TransactionBuilder.__init__: every field starts as None
NewTransactionBuilder ==
    [from |-> None, to |-> None, value |-> None, data |-> None, nonce |-> None]

\* a configured integer as a Python int: its base-256 digits
RECURSIVE ConfigDigits(_)
ConfigDigits(n) ==
    IF n = 0 THEN <<>> ELSE <<n % 256>> \o ConfigDigits(n \div 256)

ConfigInt(n) == [t |-> "int", neg |-> FALSE, digits |-> ConfigDigits(n)]

\* TransferBuilder.__init__: recipient, amount and memo start as None, fee and
\* gas limit at the configuration's defaults
NewTransferBuilder ==
    [recipient |-> None, amount |-> None, memo |-> None,
     fee |-> ConfigInt(default_fee), gas_limit |-> ConfigInt(default_gas_limit)]

\* ----------------------------------------------------------------- actions
Init ==
    /\ now = 0
    /\ request_id = 0
    /\ pc = [w \in Waits |-> "idle"]
    /\ kind = [w \in Waits |-> "tx"]
    /\ timeout = [w \in Waits |-> 0]
    /\ poll_interval = [w \in Waits |-> 1]
    /\ start_time = [w \in Waits |-> 0]
    /\ wake = [w \in Waits |-> 0]
    /\ fetched = [w \in Waits |-> InFlight]
    /\ nsleeps = [w \in Waits |-> 0]
    /\ obs = [w \in Waits |-> <<>>]
    /\ outcome = [w \in Waits |-> NoOutcome]
    /\ result = [w \in Waits |-> NoneVal]
    /\ end_time = [w \in Waits |-> 0]
    /\ ret = NoCall
    /\ sent = <<>>
    /\ tb = NewTransactionBuilder
    /\ xb = NewTransferBuilder
    /\ held = None
    /\ submits = [t \in SubmitTasks |-> NotCalled]
    /\ closed = FALSE
    /\ flight = <<>>

\* The head of the while loop, reached from the call and from the end of a
\* sleep, run up to the next await: either the condition holds and the probe's
\* _call takes the next request id and posts, or TimeoutError is raised.
EnterLoop(w, st, to, durs) ==
    IF LoopGuard(Elapsed(w, st), to)
    THEN /\ request_id' = request_id + 1
         /\ \E d \in durs :
              /\ obs' = [obs EXCEPT ![w] = Append(@,
                            [at |-> now - st, dur |-> d, resp |-> InFlight])]
              /\ wake' = [wake EXCEPT ![w] = now + d]
         /\ pc' = [pc EXCEPT ![w] = "probing"]
         /\ UNCHANGED <<outcome, end_time>>
    ELSE /\ pc' = [pc EXCEPT ![w] = "done"]
         /\ outcome' = [outcome EXCEPT ![w] = DeadlineError]
         /\ end_time' = [end_time EXCEPT ![w] = now]
         /\ UNCHANGED <<request_id, obs, wake>>

\* a wait is called: start_time is read, and the loop is entered
Start(w, b) ==
    /\ pc[w] = "idle"
    /\ now <= b.latest[w]
    /\ \E k \in b.kinds, to \in b.timeouts, p \in b.polls :
          /\ kind' = [kind EXCEPT ![w] = k]
          /\ timeout' = [timeout EXCEPT ![w] = to]
          /\ poll_interval' = [poll_interval EXCEPT ![w] = p]
          /\ start_time' = [start_time EXCEPT ![w] = now]
          /\ EnterLoop(w, now, to, b.durs)
    /\ UNCHANGED <<now, fetched, nsleeps, result>>
    /\ UNCHANGED libvars

\* the probe's await completes: the loop body runs on what was fetched
ProbeReturn(w) ==
    /\ pc[w] = "probing"
    /\ wake[w] = now
    /\ \E r \in RpcResults(kind[w]) :
         LET v == Probe(kind[w], r)
             body == Body(kind[w], v)
         IN /\ obs' = [obs EXCEPT ![w][Len(obs[w])].resp = r]
            /\ fetched' = [fetched EXCEPT ![w] = v]
            /\ \/ /\ body.act = "sleep"
                  /\ pc' = [pc EXCEPT ![w] = "sleeping"]
                  /\ wake' = [wake EXCEPT ![w] = SleepUntil(poll_interval[w])]
                  /\ nsleeps' = [nsleeps EXCEPT ![w] = @ + 1]
                  /\ UNCHANGED <<outcome, result, end_time>>
               \/ /\ body.act = "return"
                  /\ pc' = [pc EXCEPT ![w] = "done"]
                  /\ outcome' = [outcome EXCEPT ![w] = body.exc]
                  /\ result' = [result EXCEPT ![w] = ReturnValue(w, v)]
                  /\ end_time' = [end_time EXCEPT ![w] = now]
                  /\ UNCHANGED <<wake, nsleeps>>
               \/ /\ body.act = "raise"
                  /\ pc' = [pc EXCEPT ![w] = "done"]
                  /\ outcome' = [outcome EXCEPT ![w] = body.exc]
                  /\ end_time' = [end_time EXCEPT ![w] = now]
                  /\ UNCHANGED <<wake, nsleeps, result>>
    /\ UNCHANGED <<now, request_id, kind, timeout, poll_interval, start_time>>
    /\ UNCHANGED libvars

\* asyncio.sleep completes: back to the head of the loop
SleepReturn(w, b) ==
    /\ pc[w] = "sleeping"
    /\ wake[w] = now
    /\ EnterLoop(w, start_time[w], timeout[w], b.durs)
    /\ UNCHANGED <<now, kind, timeout, poll_interval, start_time, fetched,
                   nsleeps, result>>
    /\ UNCHANGED libvars

\* a wait that is suspended and whose await is not yet due
Suspended(w) == pc[w] \in {"probing", "sleeping"} /\ wake[w] > now

\* the clock advances while no started wait has anything to run
Tick(b) ==
    /\ \A w \in b.waits : pc[w] \in {"idle", "done"} \/ Suspended(w)
    /\ \/ \E w \in b.waits : Suspended(w)
       \/ \E w \in b.waits : pc[w] = "idle" /\ now < b.latest[w]
    /\ now' = now + 1
    /\ UNCHANGED <<request_id, pc, kind, timeout, poll_interval, start_time,
                   wake, fetched, nsleeps, obs, outcome, result, end_time>>
    /\ UNCHANGED libvars

\* ---------------------------------------------------------- specifications
\* one wait of either kind, every timeout and poll interval in the bounds
OneWait ==
    [waits |-> {1}, kinds |-> {"tx", "job"}, timeouts |-> (-1)..MaxTimeout,
     polls |-> 1..MaxPoll, durs |-> 0..MaxProbeDur,
     latest |-> [w \in Waits |-> MaxStart]]

Next ==
    \/ \E w \in OneWait.waits : Start(w, OneWait)
    \/ \E w \in OneWait.waits : ProbeReturn(w)
    \/ \E w \in OneWait.waits : SleepReturn(w, OneWait)
    \/ Tick(OneWait)

Spec == Init /\ [][Next]_vars

\* the event loop runs every task that is ready and its clock does not stop
FairSpec == Spec /\ WF_vars(Next)

\* the spec's scenario: a job wait with a 2-tick poll interval and a 10-tick
\* timeout (ticks are seconds)
ScenarioWait ==
    [waits |-> {1}, kinds |-> {"job"}, timeouts |-> {10}, polls |-> {2},
     durs |-> 0..MaxProbeDur, latest |-> [w \in Waits |-> MaxStart]]

NextScenario ==
    \/ \E w \in ScenarioWait.waits : Start(w, ScenarioWait)
    \/ \E w \in ScenarioWait.waits : ProbeReturn(w)
    \/ \E w \in ScenarioWait.waits : SleepReturn(w, ScenarioWait)
    \/ Tick(ScenarioWait)

SpecScenario == Init /\ [][NextScenario]_vars

\* two waits as concurrent tasks on the same client (examples/05_batch_jobs.py
\* gathers one wait per job).  The clock starts with the call of wait 1; wait 2
\* is called at the same tick, before or after it, or up to MaxConcStart later.
TwoWaits ==
    [waits |-> Waits, kinds |-> {"tx", "job"}, timeouts |-> 0..MaxConcTimeout,
     polls |-> 1..MaxConcPoll, durs |-> 0..MaxConcProbeDur,
     latest |-> [w \in Waits |-> IF w = 1 THEN 0 ELSE MaxConcStart]]

NextConc ==
    \/ \E w \in TwoWaits.waits : Start(w, TwoWaits)
    \/ \E w \in TwoWaits.waits : ProbeReturn(w)
    \/ \E w \in TwoWaits.waits : SleepReturn(w, TwoWaits)
    \/ Tick(TwoWaits)

SpecConc == Init /\ [][NextConc]_vars

\* ------------------------------------------------- the wait, run on its own
\* The same loop run alone against a recorded sequence of probe answers and
\* round trips, on a clock of its own that starts at 0: the outcome, the value
\* returned and the elapsed time at which it ends.
RECURSIVE RunAloneFrom(_, _, _, _, _, _)
RunAloneFrom(k, to, p, script, i, elapsed) ==
    IF ~(elapsed < to)
    THEN [outcome |-> Raise("TimeoutError", "timeout"), result |-> NoneVal,
          elapsed |-> elapsed]
    ELSE IF i > Len(script) \/ script[i].resp = InFlight
    THEN [outcome |-> NoOutcome, result |-> NoneVal, elapsed |-> elapsed]
    ELSE LET v == Probe(k, script[i].resp)
             body == Body(k, v)
             t == elapsed + script[i].dur
         IN IF body.act = "sleep"
            THEN RunAloneFrom(k, to, p, script, i + 1, t + p)
            ELSE [outcome |-> body.exc,
                  result |-> IF body.act = "return" THEN v ELSE NoneVal,
                  elapsed |-> t]

RunAlone(k, to, p, script) == RunAloneFrom(k, to, p, script, 1, 0)

\* ------------------------------------------------------------------ claims
Started(w) == pc[w] # "idle"
Done(w) == pc[w] = "done"
LastResp(w) == obs[w][Len(obs[w])].resp
Instantaneous(w) == \A i \in 1..Len(obs[w]) : obs[w][i].dur = 0

RECURSIVE SumDur(_)
SumDur(s) == IF s = <<>> THEN 0 ELSE Head(s).dur + SumDur(Tail(s))

\* the answers on which a wait keeps polling
StillPending(k) ==
    IF k = "job" THEN {AIJob("pending"), AIJob("assigned"), AIJob("computing")}
    ELSE {NoneVal}
AllPending(w) == \A i \in 1..Len(obs[w]) : obs[w][i].resp \in StillPending(kind[w])

\* C1: in wait_for_job_completion the first probe that observes `challenged`
\* ends the wait at once with the "is being challenged" failure: it is the
\* last probe issued, no sleep follows it (the sleeps taken are those between
\* the probes), and the wait ends at the moment that probe came back.
C1_ChallengedRaisesAtOnce ==
    \A w \in Waits : \A i \in 1..Len(obs[w]) :
        (kind[w] = "job" /\ obs[w][i].resp = AIJob("challenged")) =>
            /\ i = Len(obs[w])
            /\ Done(w)
            /\ outcome[w] = Raise("ValueError", "challenged")
            /\ nsleeps[w] = i - 1
            /\ end_time[w] = start_time[w] + obs[w][i].at + obs[w][i].dur

\* a job wait that polled, then saw `challenged`, and ended before its timeout
C1_Witness ==
    \E w \in Waits :
        /\ kind[w] = "job" /\ Done(w) /\ Len(obs[w]) >= 2
        /\ LastResp(w) = AIJob("challenged")
        /\ end_time[w] - start_time[w] < timeout[w]

\* what C2 says of a wait that has ended having seen only still-pending answers
C2_TimeoutOnPending ==
    \A w \in Waits :
        (Done(w) /\ AllPending(w)) =>
            /\ outcome[w].kind = "TimeoutError"
            /\ (Instantaneous(w) /\ timeout[w] >= 0) =>
                   end_time[w] - start_time[w] <= timeout[w] + poll_interval[w]

\* C2: a wait whose probes all report still-pending ends, and ends by raising
\* the timeout error; with instantaneous probes (and a timeout that is not
\* negative) it ends no later than timeout + one poll interval after it started.
C2_PendingForeverTimesOut ==
    /\ []C2_TimeoutOnPending
    /\ \A w \in Waits : Started(w) ~> Done(w)

\* a wait that polled at least twice, saw only still-pending answers from
\* instantaneous probes, and ended
C2_Witness ==
    \E w \in Waits :
        /\ Done(w) /\ AllPending(w) /\ Instantaneous(w) /\ Len(obs[w]) >= 2
        /\ outcome[w].kind = "TimeoutError"

\* C3: a wait raises TimeoutError only from a failed deadline check, never
\* after an answer that is an explicit remote failure, and an observed
\* `challenged` is raised as a ValueError, never as a TimeoutError: the two
\* errors are of different kinds for every sequence of probe answers.
C3_TimeoutIsNotRemoteFailure ==
    \A w \in Waits : Done(w) =>
        /\ outcome[w].kind = "TimeoutError" =>
              /\ end_time[w] - start_time[w] >= timeout[w]
              /\ AllPending(w)
        /\ (Len(obs[w]) > 0 /\ LastResp(w) = AIJob("challenged")) =>
              outcome[w].kind = "ValueError"
        /\ outcome[w].kind = "ValueError" =>
              /\ kind[w] = "job" /\ Len(obs[w]) > 0
              /\ get_job(LastResp(w)) \in {NoneVal, AIJob("challenged")}

\* a wait that probed and then ran into its deadline
C3_Witness ==
    \E w \in Waits :
        /\ Done(w) /\ outcome[w].kind = "TimeoutError" /\ Len(obs[w]) >= 1
        /\ kind[w] = "job"

\* C4 as claimed: a job probe that finds no record is still-pending, so the
\* wait it belongs to has not failed on that observation.
C4_NotFoundIsPending ==
    \A w \in Waits :
        (kind[w] = "job" /\ Len(obs[w]) > 0 /\ LastResp(w) = NoneVal) =>
            outcome[w].kind # "ValueError"

\* C5: in wait_for_transaction an absent receipt is still-pending (a sleep
\* follows it, and then a probe or the timeout; a wait that raises anything
\* but the timeout after it raises what a later probe raised), and the first
\* probe to yield a receipt, the k-th, ends the wait: the receipt is returned
\* after k probes and k-1 sleeps, at the moment that probe came back.
C5_ReceiptAfterKProbes ==
    \A w \in Waits : kind[w] = "tx" =>
        \A k \in 1..Len(obs[w]) :
            /\ obs[w][k].resp = NoneVal =>
                  /\ nsleeps[w] >= k
                  /\ outcome[w].kind \in {"none", "return", "TimeoutError",
                                          "Exception", "TypeError"}
                  /\ outcome[w].kind = "Exception" =>
                        (k < Len(obs[w]) /\ LastResp(w) = RpcError)
                  /\ outcome[w].kind = "TypeError" =>
                        (k < Len(obs[w]) /\ LastResp(w) = Malformed)
                  /\ k = Len(obs[w]) =>
                        \/ pc[w] = "sleeping"
                        \/ Done(w) /\ outcome[w].kind = "TimeoutError"
            /\ obs[w][k].resp.type = "TransactionReceipt" =>
                  /\ k = Len(obs[w])
                  /\ \A i \in 1..(k - 1) : obs[w][i].resp = NoneVal
                  /\ Done(w) /\ outcome[w] = Returned
                  /\ result[w] = obs[w][k].resp
                  /\ nsleeps[w] = k - 1
                  /\ end_time[w] - start_time[w]
                        = SumDur(obs[w]) + (k - 1) * poll_interval[w]

\* the receipt arrives on the third probe
C5_Witness ==
    \E w \in Waits :
        /\ kind[w] = "tx" /\ Done(w) /\ outcome[w] = Returned
        /\ Len(obs[w]) = 3 /\ nsleeps[w] = 2

\* C6: a job wait (poll interval 2, timeout 10) whose first three probes
\* observe pending, computing, completed returns the completed job on the
\* third probe without raising: three probes, two sleeps, the third probe
\* issued before the timeout, and with instantaneous probes the wait ends 4
\* ticks after it started, before the timeout.
C6_ScenarioCompletes ==
    \A w \in Waits :
        ( /\ kind[w] = "job" /\ Len(obs[w]) >= 3
          /\ obs[w][1].resp = AIJob("pending")
          /\ obs[w][2].resp = AIJob("computing")
          /\ obs[w][3].resp = AIJob("completed") ) =>
            /\ Len(obs[w]) = 3
            /\ Done(w) /\ outcome[w] = Returned
            /\ result[w] = AIJob("completed")
            /\ nsleeps[w] = 2
            /\ obs[w][3].at < timeout[w]
            /\ Instantaneous(w) =>
                  /\ end_time[w] - start_time[w] = 4
                  /\ end_time[w] - start_time[w] < timeout[w]

\* the scenario itself, with instantaneous probes
C6_Witness ==
    \E w \in Waits :
        /\ kind[w] = "job" /\ timeout[w] = 10 /\ poll_interval[w] = 2
        /\ Len(obs[w]) = 3 /\ Instantaneous(w)
        /\ obs[w][1].resp = AIJob("pending")
        /\ obs[w][2].resp = AIJob("computing")
        /\ obs[w][3].resp = AIJob("completed")
        /\ Done(w)

\* C7: every probe of a wait is issued at an elapsed time strictly below the
\* timeout, so a wait called with timeout <= 0 issues no probe and raises the
\* timeout error.
C7_NoProbeAfterDeadline ==
    \A w \in Waits :
        /\ \A i \in 1..Len(obs[w]) : obs[w][i].at < timeout[w]
        /\ (Started(w) /\ timeout[w] <= 0) =>
              /\ Len(obs[w]) = 0
              /\ Done(w) /\ outcome[w].kind = "TimeoutError"

\* a wait that probed, slept past its deadline, and raised without a new probe
C7_Witness ==
    \E w \in Waits :
        /\ Done(w) /\ outcome[w].kind = "TimeoutError" /\ Len(obs[w]) >= 2
        /\ end_time[w] - start_time[w] >= timeout[w]
        /\ nsleeps[w] = Len(obs[w])

\* C8 as claimed: a wait that returns a success does so before its timeout
\* has elapsed; a success that arrives later is turned into the timeout error.
C8_NoSuccessAfterTimeout ==
    \A w \in Waits :
        outcome[w] = Returned => end_time[w] - start_time[w] < timeout[w]

\* C9: the value a wait returns is the value its most recent probe fetched,
\* and no earlier probe of the same wait fetched a value it would return.
C9_ReturnsLatestProbe ==
    \A w \in Waits : outcome[w] = Returned =>
        /\ Len(obs[w]) > 0
        /\ result[w] = Probe(kind[w], LastResp(w))
        /\ \A i \in 1..(Len(obs[w]) - 1) :
              Body(kind[w], Probe(kind[w], obs[w][i].resp)).act = "sleep"

\* a wait that returns after an earlier probe had fetched something else
C9_Witness ==
    \E w \in Waits :
        /\ outcome[w] = Returned /\ Len(obs[w]) >= 2 /\ kind[w] = "job"
        /\ result[w] = AIJob("settled")

\* the variables a wait owns: its arguments, its locals, its position
Local(w) ==
    <<pc[w], kind[w], timeout[w], poll_interval[w], start_time[w], wake[w],
      fetched[w], nsleeps[w], obs[w], outcome[w], result[w], end_time[w]>>

\* no step changes what two different waits own
OneWaitMoves ==
    \E w \in Waits : \A v \in Waits \ {w} : Local(v)' = Local(v)

\* each wait that has ended ended how, and when, the same loop run alone on a
\* clock of its own ends with the same probe answers and round trips
AsWhenAlone ==
    \A w \in Waits : Done(w) =>
        LET alone == RunAlone(kind[w], timeout[w], poll_interval[w], obs[w])
        IN /\ outcome[w] = alone.outcome
           /\ result[w] = alone.result
           /\ end_time[w] - start_time[w] = alone.elapsed

\* C10 as claimed: the concurrent waits share no mutable state at all (no
\* step of a wait writes a field of the shared client), each owns its loop
\* and clock, and each ends as it would alone.
C10_NoSharedMutableState ==
    /\ [][request_id' = request_id /\ OneWaitMoves]_vars
    /\ []AsWhenAlone

\* C10, amended: the only state the concurrent waits share and write is the
\* client's request-id counter, which each probe increments by one and which
\* no wait reads to decide anything; every other variable a step changes
\* belongs to one wait, and each wait ends as it would alone.
C10_WaitsIndependent ==
    /\ [][ /\ OneWaitMoves
           /\ request_id' \in {request_id, request_id + 1} ]_vars
    /\ []AsWhenAlone

\* two waits called at different times, both ended, with different outcomes
C10_Witness ==
    /\ Done(1) /\ Done(2)
    /\ start_time[1] # start_time[2]
    /\ Len(obs[1]) >= 1 /\ Len(obs[2]) >= 2
    /\ outcome[1].kind # outcome[2].kind
    /\ request_id = Len(obs[1]) + Len(obs[2])

\* C12: the outcome of a job wait whose probe failed in the RPC call differs
\* from the outcome for a job id the node has no record of.
C12_RpcFailureDistinct ==
    \A w \in Waits :
        (/\ Done(w)
         /\ kind[w] = "job"
         /\ obs[w] # <<>>
         /\ LastResp(w) = RpcError)
        => outcome[w] # JobBody(get_job(NoneVal)).exc

\* ================================================== the client's requests
\* the request ids one client may take in a run of the library calls
MaxCalls == 2
\* the further requests the functions already running may post
MaxFollow == 3
\* the requests the tasks of one gather may post
MaxBatchCalls == 8

\* the variables of the waits other than the client's request counter
waitlocal == <<now, pc, kind, timeout, poll_interval, start_time, wake,
               fetched, nsleeps, obs, outcome, result, end_time>>

\* a bytes object
Bytes(b) == [t |-> "bytes", b |-> b]

\* `self._request_id += 1`
IncrementLost(n) == n
Increment(n) == n + 1

\* AetherClient._call up to the post: the counter is incremented and read into
\* the payload, with no await in between
TakeIdWithin(bound) ==
    /\ request_id < bound
    /\ request_id' = Increment(request_id)

TakeId == TakeIdWithin(MaxCalls)

\* AetherClient._call up to its await: the request takes the next id and is
\* posted
CallWithin(bound, method, params) ==
    /\ TakeIdWithin(bound)
    /\ sent' = Append(sent, [id |-> Increment(request_id), method |-> method,
                             params |-> params])

Call(method, params) == CallWithin(MaxCalls, method, params)

\* ================================================== bytes, integers, keys
\* the largest of the small integers given to the builders
MaxSmall == 1

\* a str is the sequence of its code points
Str(cs) == [t |-> "str", s |-> cs]

\* str.encode(): UTF-8, one byte below 128 and two bytes below 2048
Utf8(c) == IF c < 128 THEN <<c>> ELSE <<192 + (c \div 64), 128 + (c % 64)>>

\* the characters lo..hi of a str, encoded
RECURSIVE EncodeFrom(_, _, _)
EncodeFrom(cs, lo, hi) ==
    IF lo > hi THEN <<>>
    ELSE IF lo = hi THEN Utf8(cs[lo])
    ELSE EncodeFrom(cs, lo, (lo + hi) \div 2)
         \o EncodeFrom(cs, (lo + hi) \div 2 + 1, hi)

Encode(str) == EncodeFrom(str.s, 1, Len(str.s))

\* a Python int of any size: its sign and its base-256 digits, the least
\* significant first, with no leading zero digit
PyInt(neg, digits) == [t |-> "int", neg |-> neg, digits |-> digits]
RECURSIVE Base256(_)
Base256(n) == IF n = 0 THEN <<>> ELSE <<n % 256>> \o Base256(n \div 256)

Small(n) == PyInt(FALSE, Base256(n))
MinusOne == PyInt(TRUE, <<1>>)

\* v + 1
RECURSIVE AddOne(_)
AddOne(d) ==
    IF d = <<>> THEN <<1>>
    ELSE IF Head(d) = 255 THEN <<0>> \o AddOne(Tail(d))
    ELSE <<Head(d) + 1>> \o Tail(d)

RECURSIVE SubOne(_)
SubOne(d) ==
    IF d = <<1>> THEN <<>>
    ELSE IF Head(d) = 0 THEN <<255>> \o SubOne(Tail(d))
    ELSE <<Head(d) - 1>> \o Tail(d)

PlusOne(v) ==
    IF v.neg THEN PyInt(SubOne(v.digits) # <<>>, SubOne(v.digits))
    ELSE PyInt(FALSE, AddOne(v.digits))

\* v <= 0
AtMostZero(v) == v.neg \/ v.digits = <<>>
\* 256^n - 1 and 256^n
MaxOf(n) == PyInt(FALSE, [i \in 1..n |-> 255])
PowOf(n) == PyInt(FALSE, [i \in 1..(n + 1) |-> IF i = n + 1 THEN 1 ELSE 0])

\* the integers given to value() and nonce(): around 0 and around the ends
\* of the 32-bit and 64-bit ranges
IntInputs ==
    {MinusOne} \cup {Small(n) : n \in 0..MaxSmall}
    \cup {MaxOf(4), PowOf(4), MaxOf(8), PowOf(8)}

\* struct.pack("<Q", v) and struct.pack("<I", v): n bytes, little-endian;
\* struct.error when v is negative or needs more than n bytes
PackWraps(v, n) ==
    [ok |-> TRUE,
     b |-> [i \in 1..n |-> IF v.neg THEN 255
                           ELSE IF i <= Len(v.digits) THEN v.digits[i] ELSE 0]]
Pack(v, n) ==
    IF v.neg \/ Len(v.digits) > n
    THEN [ok |-> FALSE, b |-> <<>>]
    ELSE [ok |-> TRUE,
          b |-> [i \in 1..n |-> IF i <= Len(v.digits) THEN v.digits[i] ELSE 0]]

\* `tx.data or b""`
DataOrEmpty(d) == IF d = None \/ d = Bytes(<<>>) THEN <<>> ELSE d.b

\* TransactionBuilder._serialize
_serialize(tx) ==
    LET q == Pack(tx.value, 8)
        i == Pack(tx.nonce, 4)
    IN IF ~q.ok \/ ~i.ok
       THEN [ok |-> FALSE, b |-> <<>>]
       ELSE [ok |-> TRUE,
             b |-> Encode(tx.from_addr) \o Encode(tx.to) \o q.b
                   \o DataOrEmpty(tx.data) \o i.b]

\* hashlib.sha256(b).digest(): 32 bytes that stand for b and for nothing else
Sha256(b) == [t |-> "sha256", of |-> b]

\* bytes.hex(), and the same string behind a "0x"
Hex(b) == [t |-> "hexstr", x |-> FALSE, of |-> b]
Prefix0x(h) == [h EXCEPT !.x = TRUE]

\* the keypairs, named by their signing keys
Keys == {"alice", "bob"}
Pub(k) == [t |-> "pk", of |-> k]

\* Ed25519: the 64 signature bytes of a message under a signing key, and
\* their verification under a public key
Ed25519Sign(k, msg) == [t |-> "sig", by |-> Pub(k), msg |-> msg]
Ed25519Verify(pk, msg, sig) == sig = [t |-> "sig", by |-> pk, msg |-> msg]

\* Keypair.sign: the signature bytes in hex, without a prefix
KeypairSign0x(k, msg) == Prefix0x(Hex(Ed25519Sign(k, msg)))
KeypairSign(k, msg) == Hex(Ed25519Sign(k, msg))

\* Keypair.verify: False on any exception; bytes.fromhex raises on "0x"
KeypairVerify(signature, msg, pk) ==
    IF signature.t # "hexstr" \/ signature.x THEN FALSE
    ELSE Ed25519Verify(pk, msg, signature.of)

\* ============================================ aether: TransactionBuilder
\* the addresses given to from_addr() and to(): "0xa", "0xb", and a string
\* that is not ASCII (the builder takes any str)
Addrs == {Str(<<48, 120, 97>>), Str(<<48, 120, 98>>), Str(<<233>>)}

\* the bytes given to data()
DataInputs == {Bytes(<<>>), Bytes(<<1>>)}

\* types.py: Transaction
Transaction(from_addr, to, value, data, nonce, signature, hash) ==
    [from_addr |-> from_addr, to |-> to, value |-> value, data |-> data,
     nonce |-> nonce, signature |-> signature, hash |-> hash]

\* `self._x is None`
IsNoneOrZero(v) == v = None \/ v = Small(0)
IsNone(v) == v = None

\* TransactionBuilder.build: the checks in their order, then the Transaction
MissingFieldBroken(t) ==
    IF IsNone(t.from) \/ IsNone(t.to) \/ IsNone(t.value) \/ IsNone(t.nonce)
    THEN "nonce" ELSE "none"
MissingField(t) ==
    IF IsNone(t.from) THEN "from address"
    ELSE IF IsNone(t.to) THEN "to address"
    ELSE IF IsNone(t.value) THEN "value"
    ELSE IF IsNone(t.nonce) THEN "nonce"
    ELSE "none"

Requires(f) ==
    CASE f = "from address" -> "Transaction requires from address"
      [] f = "to address" -> "Transaction requires to address"
      [] f = "value" -> "Transaction requires value"
      [] f = "nonce" -> "Transaction requires nonce"

build(t) ==
    IF MissingField(t) # "none"
    THEN [exc |-> Raise("ValueError", Requires(MissingField(t))), tx |-> None]
    ELSE [exc |-> Returned,
          tx |-> Transaction(t.from, t.to, t.value, t.data, t.nonce, None, None)]

\* TransactionBuilder.sign: build, serialize, hash, sign the digest
sign(t, k) ==
    LET built == build(t)
        ser == _serialize(built.tx)
        hash_bytes == Sha256(ser.b)
    IN IF built.exc # Returned THEN built
       ELSE IF ~ser.ok
       THEN [exc |-> Raise("struct.error", "out of range"), tx |-> None]
       ELSE [exc |-> Returned,
             tx |-> [built.tx EXCEPT !.signature = KeypairSign(k, hash_bytes),
                                     !.hash = Prefix0x(Hex(hash_bytes))]]

\* a run works on one builder: the two builders are separate objects of
\* separate packages and share nothing
OnTransactionBuilder == xb = NewTransferBuilder
OnTransferBuilder == tb = NewTransactionBuilder

\* what a call on the TransactionBuilder leaves alone
TbFrame == UNCHANGED <<xb, sent, request_id, submits, closed, flight>> /\ UNCHANGED waitlocal

\* `self._x = x`: the attribute takes the argument, whatever it held
AssignIfUnset(old, new) == IF old = None THEN new ELSE old
Assign(old, new) == new

\* a setter of the TransactionBuilder called on builder t: from_addr, to,
\* value, data or nonce assigns its one attribute
Set(t, f, x) == [t EXCEPT ![f] = Assign(@, x)]

\* a setter returns the builder
SetterReturns == ret' = [op |-> "set", outcome |-> Returned, value |-> None]

TbFromAddr ==
    /\ OnTransactionBuilder
    /\ \E a \in Addrs : tb' = Set(tb, "from", a)
    /\ SetterReturns
    /\ UNCHANGED held
    /\ TbFrame

TbTo ==
    /\ OnTransactionBuilder
    /\ \E a \in Addrs : tb' = Set(tb, "to", a)
    /\ SetterReturns
    /\ UNCHANGED held
    /\ TbFrame

TbValue ==
    /\ OnTransactionBuilder
    /\ \E v \in IntInputs : tb' = Set(tb, "value", v)
    /\ SetterReturns
    /\ UNCHANGED held
    /\ TbFrame

TbData ==
    /\ OnTransactionBuilder
    /\ \E d \in DataInputs : tb' = Set(tb, "data", d)
    /\ SetterReturns
    /\ UNCHANGED held
    /\ TbFrame

TbNonce ==
    /\ OnTransactionBuilder
    /\ \E n \in IntInputs : tb' = Set(tb, "nonce", n)
    /\ SetterReturns
    /\ UNCHANGED held
    /\ TbFrame

TbBuild ==
    /\ OnTransactionBuilder
    /\ ret' = [op |-> "build", outcome |-> build(tb).exc, value |-> build(tb).tx]
    /\ UNCHANGED <<tb, held>>
    /\ TbFrame

\* sign stores signature and hash on the Transaction that its own build()
\* call has just constructed: a Transaction h kept from an earlier sign is
\* another object and is not written
SignWritesKept(h, tx) ==
    IF h = None \/ tx = None THEN h
    ELSE [h EXCEPT !.signature = tx.signature, !.hash = tx.hash]
SignWrites(h, tx) == h

TbSign ==
    /\ OnTransactionBuilder
    /\ \E k \in Keys :
         /\ ret' = [op |-> "sign", outcome |-> sign(tb, k).exc,
                    value |-> sign(tb, k).tx, key |-> k]
         /\ held' = SignWrites(held, sign(tb, k).tx)
    /\ UNCHANGED tb
    /\ TbFrame

\* C14: every Transaction that sign returns carries the hash "0x" + hex of
\* the SHA-256 of the serialization of its own fields, and its signature
\* verifies over the hash bytes under the signing keypair's public key.
C14_SignedHashAndSignatureVerify ==
    (ret.op = "sign" /\ ret.outcome = Returned)
    => LET tx == ret.value
           ser == _serialize(tx)
       IN /\ ser.ok
          /\ tx.hash = Prefix0x(Hex(Sha256(ser.b)))
          /\ KeypairVerify(tx.signature, tx.hash.of, Pub(ret.key))

C14_Witness ==
    /\ ret.op = "sign"
    /\ ret.outcome = Returned
    /\ ret.value.data = Bytes(<<1>>)
    /\ ret.value.value = MaxOf(8)
    /\ ret.key = "bob"

\* an integer that fits n unsigned bytes
InRange(v, n) == ~v.neg /\ Len(v.digits) <= n

\* the digits a little-endian field stands for
RECURSIVE Digits(_)
Digits(b) ==
    IF b = <<>> \/ b[Len(b)] # 0 THEN b ELSE Digits(SubSeq(b, 1, Len(b) - 1))

\* C20: a value outside [0, 2^64 - 1] or a nonce outside [0, 2^32 - 1] makes
\* sign raise and return no Transaction; the bytes a returned Transaction was
\* hashed over hold its value and its nonce unwrapped.
C20_OutOfRangeRaises ==
    ret.op = "sign"
    => /\ (\/ tb.value # None /\ ~InRange(tb.value, 8)
           \/ tb.nonce # None /\ ~InRange(tb.nonce, 4))
          => /\ ret.outcome.kind \in {"struct.error", "ValueError"}
             /\ ret.value = None
             /\ MissingField(tb) = "none" => ret.outcome.kind = "struct.error"
       /\ ret.outcome = Returned
          => LET tx == ret.value
                 b == tx.hash.of.of
                 n == Len(Encode(tx.from_addr)) + Len(Encode(tx.to))
             IN /\ Digits(SubSeq(b, n + 1, n + 8)) = tx.value.digits
                /\ Digits(SubSeq(b, Len(b) - 3, Len(b))) = tx.nonce.digits
                /\ ~tx.value.neg /\ ~tx.nonce.neg

C20_Witness ==
    /\ ret.op = "sign"
    /\ ret.outcome.kind = "struct.error"
    /\ tb.value = PowOf(8)
    /\ tb.nonce = Small(0)

\* ============================= aether_sdk: TransferBuilder and Transaction
\* the integers given to amount(), fee(), gas_limit() and as nonce
SdkInts == {MinusOne} \cup {Small(n) : n \in 0..MaxSmall}

\* the strings given as sender, "0xa" and "a", and as recipient, "0xb" and "b"
Senders == {Str(<<48, 120, 97>>), Str(<<97>>)}
Recipients == {Str(<<48, 120, 98>>), Str(<<98>>)}

\* the strings given to memo()
Memos == {Str(<<>>), Str(<<109>>)}

\* n bytes that are no signature of anything
Junk(n) == [t |-> "junk", n |-> n]

\* the number of bytes of a byte value
ByteLen(b) ==
    CASE b.t = "junk" -> b.n
      [] b.t = "sig" -> 64
      [] b.t = "sha256" -> 32
      [] b.t = "pk" -> 32
      [] b.t = "bytes" -> Len(b.b)

\* len(s) of a str: a hex string has two characters a byte, and its prefix
StrLen(s) ==
    IF s.t = "hexstr" THEN (IF s.x THEN 2 ELSE 0) + 2 * ByteLen(s.of)
    ELSE Len(s.s)

\* value.startswith("0x")
StartsWith0x(s) ==
    IF s.t = "hexstr" THEN s.x
    ELSE Len(s.s) >= 2 /\ s.s[1] = 48 /\ s.s[2] = 120

\* types.py ensure_hex and ensure_positive_int: TRUE when they do not raise
ensure_hex(value) == StartsWith0x(value)

ensure_positive_int(value) == ~AtMostZero(value)

\* `len(self.signature) < 66` raises
SignatureLongEnough(signature) == ~(StrLen(signature) < MinSignatureLen)

\* aether_sdk Transaction
SdkTransaction(nonce, sender, pk, recipient, amount, fee, gas_limit, memo, signature) ==
    [nonce |-> nonce, sender |-> sender, sender_public_key |-> pk,
     recipient |-> recipient, amount |-> amount, fee |-> fee,
     gas_limit |-> gas_limit, memo |-> memo, signature |-> signature,
     reads |-> <<>>, writes |-> <<>>]

\* Transaction.__post_init__: the first check that raises, or "none"
PostInitError(tx) ==
    IF ~ensure_hex(tx.sender) THEN "sender must be a hex string"
    ELSE IF ~ensure_hex(tx.sender_public_key)
         THEN "sender_public_key must be a hex string"
    ELSE IF ~ensure_hex(tx.recipient) THEN "recipient must be a hex string"
    ELSE IF ~ensure_hex(tx.signature) THEN "signature must be a hex string"
    ELSE IF ~ensure_positive_int(tx.amount) THEN "amount must be positive"
    ELSE IF ~ensure_positive_int(tx.fee) THEN "fee must be positive"
    ELSE IF ~ensure_positive_int(tx.gas_limit) THEN "gas_limit must be positive"
    ELSE IF ~ensure_positive_int(PlusOne(tx.nonce)) THEN "nonce + 1 must be positive"
    ELSE IF ~SignatureLongEnough(tx.signature)
         THEN "signature must be at least 64 bytes (hex)"
    ELSE "none"

\* the dataclass constructor: __post_init__ raises, or writes defaults to
\* the recipient
NewSdkTransaction(tx) ==
    IF PostInitError(tx) # "none"
    THEN [exc |-> Raise("ValueError", PostInitError(tx)), tx |-> None]
    ELSE [exc |-> Returned, tx |-> [tx EXCEPT !.writes = <<tx.recipient>>]]

\* Transaction.hash: the payload, its JSON text with sorted keys, the digest
Payload(tx) ==
    [nonce |-> tx.nonce, sender |-> tx.sender,
     sender_public_key |-> tx.sender_public_key, recipient |-> tx.recipient,
     amount |-> [t |-> "decimal", of |-> tx.amount],
     fee |-> [t |-> "decimal", of |-> tx.fee],
     gas_limit |-> tx.gas_limit, memo |-> tx.memo,
     reads |-> tx.reads, writes |-> tx.writes]

JsonDumps(payload) == [t |-> "json", of |-> payload]

Hash(tx) == Prefix0x(Hex(Sha256(JsonDumps(Payload(tx)))))

\* TransferBuilder.build
transfer_build(b, sender, pk, signature, nonce) ==
    IF b.recipient = None
    THEN [exc |-> Raise("ValueError", "recipient not set"), tx |-> None]
    ELSE IF b.amount = None
    THEN [exc |-> Raise("ValueError", "amount not set"), tx |-> None]
    ELSE NewSdkTransaction(
             SdkTransaction(nonce, sender, pk, b.recipient, b.amount, b.fee,
                            b.gas_limit, b.memo, signature))

\* the signature strings given to build: junk of several lengths with and
\* without the prefix, and the signatures of the keypairs over the hash of
\* the transaction being built
SignatureLens == {0, 32, 63, 64}

SignatureInputs(b, sender, pk, nonce) ==
    LET draft == [SdkTransaction(nonce, sender, pk, b.recipient, b.amount,
                                 b.fee, b.gas_limit, b.memo, None)
                    EXCEPT !.writes = <<b.recipient>>]
    IN {Hex(Junk(n)) : n \in SignatureLens}
       \cup {Prefix0x(Hex(Junk(n))) : n \in SignatureLens}
       \cup {Prefix0x(Hex(Ed25519Sign(k, Hash(draft).of))) : k \in Keys}

\* what a call on the TransferBuilder or the aether_sdk client leaves alone
XbFrame == UNCHANGED <<tb, sent, request_id, held, submits, closed, flight>> /\ UNCHANGED waitlocal

\* a validating setter: raises and stores nothing, or stores and returns
MustBePositive(field) ==
    CASE field = "amount" -> "amount must be positive"
      [] field = "fee" -> "fee must be positive"
      [] field = "gas_limit" -> "gas_limit must be positive"

XbSetter(name, arg, ok, b) ==
    /\ xb' = IF ok THEN b ELSE xb
    /\ ret' = [op |-> name, arg |-> arg, value |-> None,
               outcome |-> IF ok THEN Returned
                           ELSE Raise("ValueError", MustBePositive(name))]

XbTo ==
    /\ OnTransferBuilder
    /\ \E r \in Recipients :
         /\ xb' = IF ensure_hex(r) THEN [xb EXCEPT !.recipient = r] ELSE xb
         /\ ret' = [op |-> "to", arg |-> r, value |-> None,
                    outcome |-> IF ensure_hex(r) THEN Returned
                                ELSE Raise("ValueError",
                                           "recipient must be a hex string")]
    /\ XbFrame

XbAmount ==
    /\ OnTransferBuilder
    /\ \E a \in SdkInts :
         XbSetter("amount", a, ensure_positive_int(a), [xb EXCEPT !.amount = a])
    /\ XbFrame

XbMemo ==
    /\ OnTransferBuilder
    /\ \E m \in Memos :
         /\ xb' = [xb EXCEPT !.memo = m]
         /\ ret' = [op |-> "memo", arg |-> m, value |-> None, outcome |-> Returned]
    /\ XbFrame

XbFee ==
    /\ OnTransferBuilder
    /\ \E f \in SdkInts :
         XbSetter("fee", f, ensure_positive_int(f), [xb EXCEPT !.fee = f])
    /\ XbFrame

XbGasLimit ==
    /\ OnTransferBuilder
    /\ \E g \in SdkInts :
         XbSetter("gas_limit", g, ensure_positive_int(g),
                  [xb EXCEPT !.gas_limit = g])
    /\ XbFrame

XbBuild ==
    /\ OnTransferBuilder
    /\ \E sender \in Senders, k \in Keys, nonce \in SdkInts :
         LET pk == Prefix0x(Hex(Pub(k)))
         IN \E signature \in SignatureInputs(xb, sender, pk, nonce) :
              LET built == transfer_build(xb, sender, pk, signature, nonce)
              IN ret' = [op |-> "transfer.build", outcome |-> built.exc,
                         value |-> built.tx,
                         args |-> [sender |-> sender, sender_public_key |-> pk,
                                   signature |-> signature, nonce |-> nonce]]
    /\ UNCHANGED xb
    /\ XbFrame

SubmitResponseOfDigest(tx) ==
    [tx_hash |-> Hex(Sha256(JsonDumps(Payload(tx)))), accepted |-> TRUE]

\* SubmitResponse(tx_hash=transaction.hash(), accepted=True)
SubmitResponse(tx) == [tx_hash |-> Hash(tx), accepted |-> TRUE]

\* AetherClient.submit (aether_sdk) of the Transaction just built
Submit ==
    /\ OnTransferBuilder
    /\ ret.op = "transfer.build"
    /\ ret.outcome = Returned
    /\ ret' = [op |-> "submit", outcome |-> Returned, tx |-> ret.value,
               value |-> SubmitResponse(ret.value)]
    /\ UNCHANGED xb
    /\ XbFrame

\* the builders of both packages, from construction, under every sequence of
\* setter, build, sign and submit calls
NextBuild ==
    \/ TbFromAddr
    \/ TbTo
    \/ TbValue
    \/ TbData
    \/ TbNonce
    \/ TbBuild
    \/ TbSign
    \/ XbTo
    \/ XbAmount
    \/ XbMemo
    \/ XbFee
    \/ XbGasLimit
    \/ XbBuild
    \/ Submit

SpecBuild == Init /\ [][NextBuild]_vars

\* the signature of an aether_sdk Transaction verifies over the bytes of its
\* hash under its sender_public_key
SdkVerifies(tx) ==
    Ed25519Verify(tx.sender_public_key.of, Hash(tx).of, tx.signature.of)

\* C15: TransferBuilder.build produces no Transaction, and submit reports
\* accepted=True for no Transaction, whose signature fails verification
\* against its hash under its sender_public_key.
C15_AcceptedSignatureVerifies ==
    /\ (ret.op = "transfer.build" /\ ret.outcome = Returned)
       => SdkVerifies(ret.value)
    /\ (ret.op = "submit" /\ ret.value.accepted) => SdkVerifies(ret.tx)

\* C16: building an aether_sdk Transaction raises for every 0x-prefixed
\* signature string that encodes fewer than 64 bytes.
C16_ShortSignatureRejected ==
    (/\ ret.op = "transfer.build"
     /\ ret.args.signature.x
     /\ ByteLen(ret.args.signature.of) < 64)
    => ret.outcome # Returned

\* the required fields of each builder that are still unset, by the messages
\* that name them
TbUnset ==
    {Requires(f) : f \in {g \in {"from address", "to address", "value", "nonce"} :
        \/ g = "from address" /\ tb.from = None
        \/ g = "to address" /\ tb.to = None
        \/ g = "value" /\ tb.value = None
        \/ g = "nonce" /\ tb.nonce = None}}

XbUnset ==
    {m \in {"recipient not set", "amount not set"} :
        \/ m = "recipient not set" /\ xb.recipient = None
        \/ m = "amount not set" /\ xb.amount = None}

\* C17 as stated: build/sign fails exactly when a required field is unset,
\* the error then names an unset field, and no Transaction is returned.
C17_FailsExactlyWhenUnset ==
    /\ ret.op \in {"build", "sign"}
       => /\ ret.outcome # Returned <=> TbUnset # {}
          /\ ret.outcome # Returned
             => ret.outcome.msg \in TbUnset /\ ret.value = None
    /\ ret.op = "transfer.build"
       => /\ ret.outcome # Returned <=> XbUnset # {}
          /\ ret.outcome # Returned
             => ret.outcome.msg \in XbUnset /\ ret.value = None

\* C17, amended: build/sign raises a missing-field error exactly when a
\* required field is unset, that error names an unset field, and no
\* Transaction is returned; with every required field set,
\* TransactionBuilder.build returns, sign fails only on an integer out of
\* range and TransferBuilder.build only in the Transaction's own validation.
C17_MissingFieldNamed ==
    /\ ret.op \in {"build", "sign"}
       => /\ TbUnset # {}
             => /\ ret.outcome.kind = "ValueError"
                /\ ret.outcome.msg \in TbUnset
                /\ ret.value = None
          /\ TbUnset = {}
             => \/ ret.outcome = Returned /\ ret.value # None
                \/ /\ ret.op = "sign"
                   /\ ret.outcome.kind = "struct.error"
                   /\ ret.value = None
                   /\ ~InRange(tb.value, 8) \/ ~InRange(tb.nonce, 4)
    /\ ret.op = "transfer.build"
       => /\ XbUnset # {}
             => /\ ret.outcome.kind = "ValueError"
                /\ ret.outcome.msg \in XbUnset
                /\ ret.value = None
          /\ XbUnset = {}
             => \/ ret.outcome = Returned /\ ret.value # None
                \/ /\ ret.outcome.kind = "ValueError"
                   /\ ret.outcome.msg \notin {"recipient not set", "amount not set"}
                   /\ ret.outcome.msg = PostInitError(
                          SdkTransaction(ret.args.nonce, ret.args.sender,
                              ret.args.sender_public_key, xb.recipient,
                              xb.amount, xb.fee, xb.gas_limit, xb.memo,
                              ret.args.signature))
                   /\ ret.value = None

C17_Witness ==
    /\ ret.op = "sign"
    /\ ret.outcome = Raise("ValueError", "Transaction requires value")
    /\ tb.nonce # None
    /\ tb.data # None

\* C18: a nonce of 0 is a set nonce: build and sign with nonce(0) return a
\* Transaction with nonce 0 when the other fields allow it and never report
\* the nonce missing, and TransferBuilder.build(nonce=0) ends as it does for
\* nonce 1, with nonce 0 in the Transaction.
C18_ZeroNonceIsSet ==
    /\ (ret.op \in {"build", "sign"} /\ tb.nonce = Small(0))
       => /\ ret.outcome # Raise("ValueError", "Transaction requires nonce")
          /\ (/\ tb.from # None /\ tb.to # None /\ tb.value # None
              /\ ret.op = "sign" => InRange(tb.value, 8))
             => ret.outcome = Returned /\ ret.value.nonce = Small(0)
    /\ (ret.op = "transfer.build" /\ ret.args.nonce = Small(0))
       => /\ ret.outcome.msg # "nonce + 1 must be positive"
          /\ ret.outcome =
                transfer_build(xb, ret.args.sender, ret.args.sender_public_key,
                               ret.args.signature, Small(1)).exc
          /\ ret.outcome = Returned => ret.value.nonce = Small(0)

C18_Witness ==
    /\ ret.op = "transfer.build"
    /\ ret.outcome = Returned
    /\ ret.value.nonce = Small(0)

\* C19: amount(), fee() and gas_limit() accept every non-negative argument,
\* 0 included, and reject only negative ones.
C19_ZeroAccepted ==
    (ret.op \in {"amount", "fee", "gas_limit"} /\ ~ret.arg.neg)
    => ret.outcome = Returned

\* C21: absent and empty optional fields give the same hash: a signed
\* transaction with data None and one with data b"", and an aether_sdk
\* transaction with memo None and one with memo "", all else equal.
C21_AbsentEqualsEmpty ==
    /\ (/\ ret.op = "sign"
        /\ ret.outcome = Returned
        /\ ret.value.data \in {None, Bytes(<<>>)})
       => \A d \in {None, Bytes(<<>>)} :
             sign([tb EXCEPT !.data = d], ret.key).tx.hash = ret.value.hash
    /\ (/\ ret.op = "transfer.build"
        /\ ret.outcome = Returned
        /\ ret.value.memo \in {None, Str(<<>>)})
       => \A m \in {None, Str(<<>>)} :
             Hash([ret.value EXCEPT !.memo = m]) = Hash(ret.value)

\* a builder that was given the final values once each, in the order of
\* TransactionBuilder.transfer and call
SetOnce(from_addr, to, value, data, nonce) ==
    [from |-> from_addr, to |-> to, value |-> value, data |-> data,
     nonce |-> nonce]

\* ===================================== aether: a signed Transaction's life
\* TransactionBuilder.transfer(from_addr, to, amount, nonce): a new builder
\* with these four fields set.  The transfers made here go from "0xa" to
\* "0xb" or to "0xC" (the builder takes an address in any case of letters).
TransferFrom == {Str(<<48, 120, 97>>)}
TransferTo == {Str(<<48, 120, 98>>), Str(<<48, 120, 67>>)}

TbTransfer ==
    /\ OnTransactionBuilder
    /\ \E f \in TransferFrom, t \in TransferTo :
         tb' = SetOnce(f, t, Small(1), None, Small(0))
    /\ ret' = [op |-> "transfer", outcome |-> Returned, value |-> None]
    /\ UNCHANGED held
    /\ TbFrame

\* the caller keeps the Transaction that sign has just returned
Keep ==
    /\ OnTransactionBuilder
    /\ ret.op = "sign"
    /\ ret.outcome = Returned
    /\ held = None
    /\ held' = ret.value
    /\ UNCHANGED <<ret, tb>>
    /\ TbFrame

\* `tx.data.hex() if tx.data else None`
DataHex(d) == IF d = None \/ d = Bytes(<<>>) THEN None ELSE Hex(d)

\* AetherClient.send_transaction: the envelope handed to sendTransaction
Envelope(tx) ==
    [from |-> tx.from_addr, to |-> tx.to, value |-> tx.value,
     data |-> DataHex(tx.data), nonce |-> tx.nonce, signature |-> tx.signature]

\* what the node may answer to sendTransaction: an error, or the hash
SendAnswers(tx) == {RpcError, [type |-> "Hash", status |-> "none", hash |-> tx.hash]}

\* a str that is "0x" and then lowercase hex digits only
IsHexDigits(cs) == \A i \in 1..Len(cs) : cs[i] \in (48..57) \cup (97..102)

Is0xLowerHex(v) ==
    IF v.t = "hexstr" THEN v.x
    ELSE /\ v.t = "str"
         /\ StartsWith0x(v)
         /\ IsHexDigits(SubSeq(v.s, 3, Len(v.s)))

\* C23: in the envelope passed to sendTransaction the signature, the data
\* when present, and the from and to addresses are 0x-prefixed lowercase hex.
C23_EnvelopeIs0xHex ==
    \A i \in 1..Len(sent) :
        sent[i].method = "sendTransaction"
        => LET e == sent[i].params[1]
           IN /\ Is0xLowerHex(e.signature)
              /\ e.data # None => Is0xLowerHex(e.data)
              /\ Is0xLowerHex(e.from)
              /\ Is0xLowerHex(e.to)

\* C26: a Transaction is not changed once sign has returned it: no later
\* setter call, sign or send_transaction changes a field, the hash or the
\* signature of the Transaction the caller kept.
C26_KeptTransactionUnchanged == [][held # None => held' = held]_vars

\* the kept Transaction has been sent and the answer has come, after later
\* setter calls and another sign on the same builder
C26_Witness ==
    /\ held # None
    /\ ret.op = "send_transaction"
    /\ ret.tx = held
    /\ tb.to # held.to
    /\ tb.data # held.data
    /\ \E i \in 1..Len(flight) : flight[i].op = "send_transaction"

\* C25: client.submit(tx) of a Transaction built by client.transfer()...build
\* returns accepted = True and a tx_hash that starts with 0x and is tx.hash();
\* tx.hash() is the same before the submit and after it.
C25_SubmitAcceptsWithHash ==
    [][ret'.op = "submit"
       => /\ ret.op = "transfer.build" /\ ret.outcome = Returned
          /\ ret'.outcome = Returned
          /\ ret'.value.accepted = TRUE
          /\ ret'.value.tx_hash.t = "hexstr"
          /\ ret'.value.tx_hash.x = TRUE
          /\ ret'.value.tx_hash = Hash(ret.value)
          /\ Hash(ret'.tx) = Hash(ret.value)]_vars

C25_Witness ==
    /\ ret.op = "submit"
    /\ ret.value.accepted = TRUE
    /\ ret.tx.memo # None
    /\ ret.tx.nonce # Small(0)

\* ============================== aether: two Transactions and their encodings
\* the setters take any str: "0x" and "a0xb" are addresses like "0xa" and "0xb"
SplitFrom == {Str(<<48, 120, 97>>), Str(<<48, 120>>)}
SplitTo == {Str(<<48, 120, 98>>), Str(<<97, 48, 120, 98>>)}

\* TransactionBuilder.transfer with any of these addresses
TbTransferSplit ==
    /\ OnTransactionBuilder
    /\ \E f \in SplitFrom, t \in SplitTo :
         tb' = SetOnce(f, t, Small(1), None, Small(0))
    /\ ret' = [op |-> "transfer", outcome |-> Returned, value |-> None]
    /\ UNCHANGED held
    /\ TbFrame

\* one Transaction is signed and kept, then another is built and signed
NextSerial ==
    \/ TbTransferSplit
    \/ TbData
    \/ TbNonce
    \/ TbSign
    \/ Keep

SpecSerial == Init /\ [][NextSerial]_vars

\* the same five fields, absent data being empty data
SameFields(a, b) ==
    /\ a.from_addr = b.from_addr
    /\ a.to = b.to
    /\ a.value = b.value
    /\ DataOrEmpty(a.data) = DataOrEmpty(b.data)
    /\ a.nonce = b.nonce

\* C30: two field sets (from, to, value, data, nonce) that differ in a field,
\* absent data being empty data, never have the same bytes from _serialize,
\* and so never the same hash and signed message.
C30_SerializeInjective ==
    (held # None /\ ret.op = "sign" /\ ret.outcome = Returned
     /\ ~SameFields(held, ret.value))
    => /\ _serialize(held).b # _serialize(ret.value).b
       /\ held.hash # ret.value.hash

\* ================================================ aether: the fluent chain
\* Every setter returns the builder, so a builder is made and filled in one
\* expression, TransactionBuilder().nonce(n).to(a). ... .sign(keypair), as
\* transfer and call do.  While a chain runs, `ret` holds the setter calls
\* made on its builder so far; the sign that ends it returns with them.
MaxChain == 5

\* the setter calls of a chain: from_addr("0xa"), to("0xb"), value(0),
\* value(1), nonce(0), data(b"\x01")
ChainCalls ==
    {[setter |-> "from", arg |-> Str(<<48, 120, 97>>)],
     [setter |-> "to", arg |-> Str(<<48, 120, 98>>)],
     [setter |-> "value", arg |-> Small(0)],
     [setter |-> "value", arg |-> Small(1)],
     [setter |-> "nonce", arg |-> Small(0)],
     [setter |-> "data", arg |-> Bytes(<<1>>)]}

\* TransactionBuilder(): a new builder, on which a chain begins
TbNew ==
    /\ OnTransactionBuilder
    /\ tb' = NewTransactionBuilder
    /\ ret' = [op |-> "chain", outcome |-> Returned, value |-> None,
               calls |-> <<>>]
    /\ UNCHANGED held
    /\ TbFrame

\* the next setter call of the chain, on the builder the last call returned
TbChainSet ==
    /\ OnTransactionBuilder
    /\ ret.op = "chain"
    /\ Len(ret.calls) < MaxChain
    /\ \E c \in ChainCalls :
         /\ tb' = Set(tb, c.setter, c.arg)
         /\ ret' = [ret EXCEPT !.calls = Append(@, c)]
    /\ UNCHANGED held
    /\ TbFrame

\* the chain ends in `await ... .sign(keypair)`
TbChainSign ==
    /\ OnTransactionBuilder
    /\ ret.op = "chain"
    /\ \E k \in Keys :
         /\ ret' = [op |-> "sign", outcome |-> sign(tb, k).exc,
                    value |-> sign(tb, k).tx, key |-> k, calls |-> ret.calls]
         /\ held' = SignWrites(held, sign(tb, k).tx)
    /\ UNCHANGED tb
    /\ TbFrame

\* a first builder is made by transfer, signed, and its Transaction kept;
\* a second builder is made and filled by a chain of setter calls in any
\* order, any of them repeated, and signed
NextOrder ==
    \/ TbTransfer
    \/ TbSign
    \/ Keep
    \/ TbNew
    \/ TbChainSet
    \/ TbChainSign

SpecOrder == Init /\ [][NextOrder]_vars

\* the argument of the last call of setter f among the calls cs, None when
\* cs has no call of f
LastGiven(cs, f) ==
    LET at == {i \in 1..Len(cs) : cs[i].setter = f}
    IN IF at = {} THEN None
       ELSE cs[CHOOSE i \in at : \A j \in at : j <= i].arg

\* the final field values of a builder on which the calls cs were made
FinalValues(cs) ==
    SetOnce(LastGiven(cs, "from"), LastGiven(cs, "to"), LastGiven(cs, "value"),
            LastGiven(cs, "data"), LastGiven(cs, "nonce"))

\* two Transactions made from the same five field values
SameValues(a, b) ==
    /\ a.from_addr = b.from_addr
    /\ a.to = b.to
    /\ a.value = b.value
    /\ a.data = b.data
    /\ a.nonce = b.nonce

\* C22: what sign returns is a function of the final field values and the
\* keypair only.  A chain of setter calls, in whatever order and however often
\* a setter is repeated, ends as a builder given the last value of each
\* setter once does: same outcome, same Transaction.  And a Transaction signed
\* from the same five values with the same keypair as one signed and kept
\* before, on the same builder or on another, has the kept one's hash and
\* signature.
C22_SignedIsFunctionOfFinalValues ==
    /\ (ret.op = "sign" /\ "calls" \in DOMAIN ret)
       => LET once == sign(FinalValues(ret.calls), ret.key)
          IN /\ ret.outcome = once.exc
             /\ ret.value = once.tx
    /\ (/\ ret.op = "sign"
        /\ ret.outcome = Returned
        /\ held # None
        /\ SameValues(ret.value, held)
        /\ held.signature.of.by = Pub(ret.key))
       => /\ ret.value.hash = held.hash
          /\ ret.value.signature = held.signature

\* a chain of five calls that begins with nonce and calls value twice, with
\* different amounts, was signed, and the Transaction kept from the builder
\* that transfer made was signed from the same values with the same keypair
C22_Witness ==
    /\ ret.op = "sign"
    /\ "calls" \in DOMAIN ret
    /\ ret.outcome = Returned
    /\ Len(ret.calls) = MaxChain
    /\ ret.calls[1].setter = "nonce"
    /\ \E i \in 1..Len(ret.calls), j \in 1..Len(ret.calls) :
          /\ i < j
          /\ ret.calls[i].setter = "value"
          /\ ret.calls[j].setter = "value"
          /\ ret.calls[i].arg # ret.calls[j].arg
    /\ held # None
    /\ SameValues(ret.value, held)
    /\ held.signature.of.by = Pub(ret.key)

\* ================================================ wait_for_transaction again
\* C29: wait_for_transaction returns the first receipt a probe yields
\* whatever its status, a `failed` receipt exactly like a `success` one, and
\* it raises nothing but the timeout error, the error of the RPC call, or the
\* TypeError of a probe whose answer is neither null nor a receipt.
C29_ReceiptReturnedOrProbeRaises ==
    \A w \in Waits : (kind[w] = "tx" /\ Done(w)) =>
        /\ outcome[w].kind \in {"return", "TimeoutError", "Exception", "TypeError"}
        /\ outcome[w].kind = "Exception" =>
              /\ Len(obs[w]) > 0
              /\ LastResp(w) = RpcError
        /\ outcome[w].kind = "TypeError" =>
              /\ Len(obs[w]) > 0
              /\ LastResp(w) = Malformed
        /\ outcome[w].kind = "TimeoutError" =>
              \A i \in 1..Len(obs[w]) : obs[w][i].resp = NoneVal
        /\ \A s \in ReceiptStatus :
              (Len(obs[w]) > 0 /\ LastResp(w) = TransactionReceipt(s)) =>
                  /\ outcome[w] = Returned
                  /\ result[w] = TransactionReceipt(s)

\* C29 as claimed: the wait raises nothing but the timeout error or the error
\* of the RPC call.
C29_AnyReceiptIsReturned ==
    \A w \in Waits : (kind[w] = "tx" /\ Done(w)) =>
        /\ outcome[w].kind \in {"return", "TimeoutError", "Exception"}
        /\ outcome[w].kind = "Exception" =>
              /\ Len(obs[w]) > 0
              /\ LastResp(w) = RpcError
        /\ outcome[w].kind = "TimeoutError" =>
              \A i \in 1..Len(obs[w]) : obs[w][i].resp = NoneVal
        /\ \A s \in ReceiptStatus :
              (Len(obs[w]) > 0 /\ LastResp(w) = TransactionReceipt(s)) =>
                  /\ outcome[w] = Returned
                  /\ result[w] = TransactionReceipt(s)

\* a failed receipt came on the second probe and was returned
C29_Witness ==
    \E w \in Waits :
        /\ kind[w] = "tx" /\ Done(w) /\ Len(obs[w]) = 2
        /\ LastResp(w) = TransactionReceipt("failed")
        /\ outcome[w] = Returned
        /\ result[w].status = "failed"

\* ==================================================== keypairs and contracts
\* ai.py:14, staking.py:13, governance.py:13
JOB_ESCROW_CONTRACT ==
    Str(<<48, 120, 49>> \o [i \in 1..38 |-> 48] \o <<51>>)
STAKING_CONTRACT ==
    Str(<<48, 120, 49>> \o [i \in 1..38 |-> 48] \o <<49>>)
GOVERNANCE_CONTRACT ==
    Str(<<48, 120, 49>> \o [i \in 1..38 |-> 48] \o <<50>>)

\* Keypair.from_seed(k)
Keypair(k) == [t |-> "keypair", key |-> k]

\* Keypair.address: "0x" and the 40 hex digits of the last 20 bytes of the
\* SHA-256 of the public key; the addresses of the keypairs made from the
\* seeds "alice", "bob" and "my seed phrase"
KeypairAddress(kp) ==
    CASE kp.key = "alice" ->
           Str(<<48, 120, 54, 100, 49, 51, 49, 49, 54, 48, 101, 52, 98, 50,
               99, 48, 99, 51, 99, 52, 48, 97, 49, 57, 57, 100, 100, 54, 99,
               49, 102, 99, 98, 100, 54, 57, 55, 97, 48, 50, 48, 49>>)
      [] kp.key = "bob" ->
           Str(<<48, 120, 98, 97, 56, 53, 53, 101, 52, 49, 101, 101, 54, 57,
               99, 97, 51, 97, 54, 101, 51, 102, 97, 97, 101, 57, 100, 100,
               50, 48, 51, 51, 102, 97, 49, 51, 54, 57, 101, 54, 98, 49>>)
      [] kp.key = "my seed phrase" ->
           Str(<<48, 120, 101, 48, 50, 98, 99, 99, 48, 54, 55, 52, 55, 50,
               53, 48, 100, 54, 50, 48, 54, 49, 48, 51, 101, 97, 57, 48, 51,
               53, 102, 48, 49, 54, 98, 98, 56, 100, 98, 55, 49, 99>>)

\* ============================================================ hex and JSON
\* the value of one hex digit, -1 for any other character
HexVal(c) ==
    IF c \in 48..57 THEN c - 48
    ELSE IF c \in 97..102 THEN c - 87
    ELSE IF c \in 65..70 THEN c - 55
    ELSE -1

\* the ASCII whitespace bytes.fromhex skips: \t \n \v \f \r and the space
IsSpace(c) == c \in (9..13) \cup {32}

\* bytes.fromhex(s) from the i-th character on: whitespace before a byte and
\* after the last is skipped, a byte is two hex digits next to each other,
\* anything else is a ValueError
RECURSIVE FromHexAt(_, _)
FromHexAt(cs, i) ==
    IF i > Len(cs) THEN [ok |-> TRUE, b |-> <<>>]
    ELSE IF IsSpace(cs[i]) THEN FromHexAt(cs, i + 1)
    ELSE IF i = Len(cs) \/ HexVal(cs[i]) < 0 \/ HexVal(cs[i + 1]) < 0
    THEN [ok |-> FALSE, b |-> <<>>]
    ELSE LET rest == FromHexAt(cs, i + 2)
         IN IF ~rest.ok THEN rest
            ELSE [ok |-> TRUE,
                  b |-> <<16 * HexVal(cs[i]) + HexVal(cs[i + 1])>> \o rest.b]

FromHex(cs) == FromHexAt(cs, 1)

\* s[:n]
Take(s, n) == SubSeq(s, 1, IF Len(s) < n THEN Len(s) ELSE n)

\* a Python bool
PyBool(b) == [t |-> "bool", v |-> b]

\* one lower-case hex digit, and the \uXXXX escape of a 16-bit unit
HexDigit(n) == IF n < 10 THEN 48 + n ELSE 87 + n
Escape16(c) ==
    <<92, 117, HexDigit(c \div 4096), HexDigit((c \div 256) % 16),
      HexDigit((c \div 16) % 16), HexDigit(c % 16)>>

\* json.dumps of one character of a str, ensure_ascii on: the quote and the
\* backslash are escaped, \n \r \t \b \f have their short forms, every other
\* character outside ' '..'~' is \uXXXX, as a surrogate pair above U+FFFF
JsonChar(c) ==
    CASE c = 34 -> <<92, 34>>
      [] c = 92 -> <<92, 92>>
      [] c = 10 -> <<92, 110>>
      [] c = 13 -> <<92, 114>>
      [] c = 9 -> <<92, 116>>
      [] c = 8 -> <<92, 98>>
      [] c = 12 -> <<92, 102>>
      [] c \in 32..126 -> <<c>>
      [] c >= 65536 ->
           Escape16(55296 + ((c - 65536) \div 1024))
           \o Escape16(56320 + ((c - 65536) % 1024))
      [] OTHER -> Escape16(c)

\* the characters lo..hi of a str, each as json.dumps writes it
RECURSIVE JsonChars(_, _, _)
JsonChars(cs, lo, hi) ==
    IF lo > hi THEN <<>>
    ELSE IF lo = hi THEN JsonChar(cs[lo])
    ELSE JsonChars(cs, lo, (lo + hi) \div 2)
         \o JsonChars(cs, (lo + hi) \div 2 + 1, hi)

JsonString(str) == <<34>> \o JsonChars(str.s, 1, Len(str.s)) \o <<34>>

\* the digits of a Python int (base 256, least significant first) divided by
\* ten: the quotient's digits and the remainder
RECURSIVE DivModTen(_)
DivModTen(d) ==
    IF d = <<>> THEN [q |-> <<>>, r |-> 0]
    ELSE LET hi == DivModTen(Tail(d))
             cur == hi.r * 256 + Head(d)
         IN [q |-> <<cur \div 10>> \o hi.q, r |-> cur % 10]

RECURSIVE NoLeadingZero(_)
NoLeadingZero(d) ==
    IF d = <<>> \/ d[Len(d)] # 0 THEN d
    ELSE NoLeadingZero(SubSeq(d, 1, Len(d) - 1))

RECURSIVE DecimalDigits(_)
DecimalDigits(d) ==
    IF d = <<>> THEN <<>>
    ELSE DecimalDigits(NoLeadingZero(DivModTen(d).q)) \o <<48 + DivModTen(d).r>>

\* str(v) of a Python int
Decimal(v) ==
    (IF v.neg THEN <<45>> ELSE <<>>)
    \o (IF v.digits = <<>> THEN <<48>> ELSE DecimalDigits(v.digits))

\* json.dumps of one member of a params list: a str, an int, a bool or None;
\* bytes are not JSON serializable
JsonEncodes(v) == v.t \in {"str", "int", "bool", "None"}
JsonItem(v) ==
    CASE v.t = "str" -> JsonString(v)
      [] v.t = "int" -> Decimal(v)
      [] v.t = "bool" -> IF v.v THEN <<116, 114, 117, 101>> ELSE <<102, 97, 108, 115, 101>>
      [] v.t = "None" -> <<110, 117, 108, 108>>

RECURSIVE JsonItems(_, _)
JsonItems(ps, i) ==
    IF i > Len(ps) THEN <<>>
    ELSE (IF i > 1 THEN <<44, 32>> ELSE <<>>) \o JsonItem(ps[i])
         \o JsonItems(ps, i + 1)

\* json.dumps(params) of a list: '[' the members joined by ', ' ']'
json_dumps(ps) ==
    IF \E i \in 1..Len(ps) : ~JsonEncodes(ps[i])
    THEN [ok |-> FALSE, s |-> <<>>]
    ELSE [ok |-> TRUE, s |-> <<91>> \o JsonItems(ps, 1) \o <<93>>]

\* what an encoder hands back, or the exception it raises
Encoded(b) == [ok |-> TRUE, b |-> Bytes(b), exc |-> Returned]
EncodeRaises(k, msg) == [ok |-> FALSE, b |-> None, exc |-> Raise(k, msg)]

\* _encode_call of AIJobHelper, StakingHelper and GovernanceHelper, the same
\* three lines in each: (method + json.dumps(params)).encode()[:4]
_encode_call(method, ps) ==
    IF ~json_dumps(ps).ok THEN EncodeRaises("TypeError", "not JSON serializable")
    ELSE Encoded(Take(Encode(Str(method.s \o json_dumps(ps).s)), 4))

\* AIJobHelper._encode_job_submission: b"subm", the bytes of model_hash[2:],
\* the input data
_encode_job_submission(model_hash, input_data) ==
    LET hash_bytes == FromHex(SubSeq(model_hash.s, 3, Len(model_hash.s)))
    IN IF ~hash_bytes.ok THEN EncodeRaises("ValueError", "fromhex")
       ELSE Encoded(<<115, 117, 98, 109>> \o hash_bytes.b \o input_data.b)

\* AIJobHelper._encode_result_submission: b"subm", the bytes of job_id[2:],
\* the result
_encode_result_submission(job_id, res) ==
    LET job_id_bytes == FromHex(SubSeq(job_id.s, 3, Len(job_id.s)))
    IN IF ~job_id_bytes.ok THEN EncodeRaises("ValueError", "fromhex")
       ELSE Encoded(<<115, 117, 98, 109>> \o job_id_bytes.b \o res.b)

\* the value of a Python int that is small enough to count with here
RECURSIVE NatOf(_)
NatOf(d) == IF d = <<>> THEN 0 ELSE Head(d) + 256 * NatOf(Tail(d))

\* ======================================================= the node's answers
\* job ids are hashes: "0x01" and "0x02"
JobIds == {Str(<<48, 120, 48, 49>>), Str(<<48, 120, 48, 50>>)}
Providers == {"prov-1", "prov-2"}

\* the job the calls made here are about, and its provider
TheJob == Str(<<48, 120, 48, 49>>)
TheProvider == "prov-1"

\* the `result` member of the JSON object ai_getJob answers with: the key is
\* missing, or it is null (None), or it carries bytes, possibly none
AbsentKey == [t |-> "absent"]
ResultMembers == {AbsentKey, None, Bytes(<<>>), Bytes(<<1>>)}

\* the JSON object ai_getJob answers with for a job the node knows
JobData(id, s, prov, r) ==
    [type |-> "AIJob", id |-> id, status |-> s, provider |-> prov, result |-> r]

\* a JSON number, object, array and string in an answer
Number(n) == [type |-> "int", status |-> "none", v |-> n]
Dict == [type |-> "dict", status |-> "none"]
List(items) == [type |-> "list", status |-> "none", items |-> items]
HashOf(h) == [type |-> "Hash", status |-> "none", hash |-> h]

\* the JSON objects the node answers with for the dataclasses of types.py,
\* with the members the functions here read
Account(n) ==
    [type |-> "Account", status |-> "none", nonce |-> n, balance |-> Small(2)]
BlockData == [type |-> "Block", status |-> "none", slot |-> Small(1)]
TransactionData == [type |-> "Transaction", status |-> "none", nonce |-> Small(0)]
ValidatorData == [type |-> "Validator", status |-> "active", stake |-> Small(1)]
DelegationData == [type |-> "Delegation", status |-> "none", amount |-> Small(1)]
VoteData == [type |-> "Vote", status |-> "none", support |-> PyBool(TRUE)]
ProposalData(s) ==
    [type |-> "Proposal", status |-> s, votes_for |-> Small(2),
     votes_against |-> Small(1), end_slot |-> Small(3)]
VcrData(id, prov) ==
    [type |-> "VCR", status |-> "none", job_id |-> id, provider |-> prov,
     result |-> Str(<<48, 120, 48, 49>>)]

\* the account's nonce on the node
NodeNonces == {Small(n) : n \in 0..MaxSmall}

\* what the node may answer to getAccount while transactions are being sent:
\* an error, null, or the account with the nonce it holds at that moment
AccountAnswers == {RpcError, NoneVal} \cup {Account(n) : n \in NodeNonces}

\* the well-formed results the node may give to the request of a suspended
\* call
Results(c) ==
    CASE c.method = "getSlot" ->
           IF c.op = "get_proposal_status"
           THEN {Number(Small(1)), Number(Small(4))} ELSE {Number(Small(1))}
      [] c.method \in {"getBlock", "getBlockByHash", "getLatestBlock"} ->
           {BlockData}
      [] c.method = "getTransaction" -> {TransactionData}
      [] c.method = "getAccount" -> {Account(Small(1))}
      [] c.method = "sendTransaction" -> {HashOf(c.args.tx.hash)}
      [] c.method = "sendRawTransaction" -> {HashOf(Prefix0x(Hex(Sha256(<<1>>))))}
      [] c.method = "getTransactionReceipt" ->
           {Malformed} \cup {TransactionReceipt(s) : s \in ReceiptStatus}
      [] c.method = "ai_getJob" ->
           {Malformed}
           \cup {JobData(c.params[1], s, TheProvider, AbsentKey) : s \in JobStatus}
           \cup {JobData(c.params[1], "completed", TheProvider, r) :
                    r \in ResultMembers}
      [] c.method \in {"ai_getJobsByCreator", "ai_getPendingJobs",
                       "ai_getJobsByProvider"} ->
           {List(<<>>),
            List(<<JobData(TheJob, "pending", TheProvider, AbsentKey)>>)}
      [] c.method = "ai_getVCR" ->
           {VcrData(id, prov) : id \in JobIds, prov \in Providers}
      [] c.method = "ai_verifyVCR" -> {PyBool(TRUE), PyBool(FALSE)}
      [] c.method = "ai_listModels" -> {List(<<Str(<<48, 120, 97, 98>>)>>)}
      [] c.method = "staking_getValidator" -> {ValidatorData}
      [] c.method = "staking_getValidators" -> {List(<<ValidatorData>>)}
      [] c.method = "staking_getDelegation" -> {DelegationData}
      [] c.method = "staking_getDelegations" -> {List(<<DelegationData>>)}
      [] c.method = "governance_getProposal" ->
           {ProposalData("active"), ProposalData("passed")}
      [] c.method \in {"governance_getActiveProposals",
                       "governance_getAllProposals"} ->
           {List(<<ProposalData("active")>>)}
      [] c.method = "governance_getVote" -> {VoteData}
      [] c.method = "governance_getQuorum" ->
           {Number(Small(3)), Number(Small(4))}
      [] c.method \in {"estimateGas", "staking_getPendingRewards",
                       "staking_getTotalStake", "staking_getMinimumStake",
                       "governance_getVotingPower"} -> {Number(Small(1))}
      [] c.method \in {"ai_getJobStats", "ai_getProviderReputation",
                       "ai_getModel"} -> {Dict}
      [] c.method = "ai_registerModel" -> {}

\* what _call can come back with: the exception of an RPC or HTTP error, None
\* for a null or missing result, or a result
Answers(c) == {RpcError, NoneVal} \cup Results(c)

\* ============================================ calls in flight on one client
\* Every public function that reaches _call runs up to `await
\* self._client.post(...)`, is suspended there while other tasks run, and goes
\* on when the node's answer arrives; a function that awaits several calls in
\* a row goes from one answer to its next post without a switch in between.
\* `flight` holds the suspended functions in the order they were called; `ret`
\* is the function that ended last.
\* `at` is the await the function is suspended in: a post, or the sleep of a
\* wait between two probes; `step` counts the requests it has posted.
InFlightCall(id, op, args, method, params, step) ==
    [id |-> id, op |-> op, args |-> args, method |-> method, params |-> params,
     step |-> step, at |-> "post"]

\* the call after it reached `await asyncio.sleep(poll_interval)`
Asleep(c) == [c EXCEPT !.at = "sleep"]

\* the calls still suspended once the i-th has gone on
Resumed(f, i) == [j \in 1..(Len(f) - 1) |-> IF j < i THEN f[j] ELSE f[j + 1]]

\* a function is called and runs to the post of its first request
Post(op, args, method, params) ==
    /\ Call(method, params)
    /\ flight' = Append(flight, InFlightCall(Increment(request_id), op, args,
                                             method, params, 1))

\* the library state no client call touches
CallFrame == UNCHANGED <<tb, xb, held, submits, closed>> /\ UNCHANGED waitlocal

\* what a suspended function does with the answer: it ends, it goes to sleep,
\* or it posts its next request
End(r) == [act |-> "end", ret |-> r]
Sleeps == [act |-> "sleep"]
Then(method, params, args) ==
    [act |-> "post", method |-> method, params |-> params, args |-> args]

\* the function ended: how, and with what value
Out(c, o, v) == [op |-> c.op, outcome |-> o, value |-> v, id |-> c.id]
RpcRaises(c) == Out(c, Raise("Exception", "rpc"), None)
NoneRaises(c) == Out(c, Raise("TypeError", "NoneType"), None)
\* D(**data) on data that is not a D's raises TypeError
ConstructRaises(c) == Out(c, Raise("TypeError", "TransactionReceipt"), None)

\* ------------------------------------------- functions that make one call
\* a function that awaits one _call and hands back what it makes of the
\* answer:
\*   "raw"       return await self._call(...)
\*   "discard"   await self._call(...), nothing returned
\*   "swallow"   try: return await self._call(...) / except Exception: None
\*   "optional"  try: D(**data) if data else None / except Exception: None
\*   "strict"    None if data is None else D(**data)
\*   "object"    D(**data)
\*   "list"      [D(**x) for x in data]
\*   "nonce", "balance"   Account(**data), then the field
\*   "healthy"   try: await self.get_slot(); True / except Exception: False
Function(op, method, params, shape) ==
    [op |-> op, method |-> method, params |-> params, shape |-> shape]

\* AIJob(**data): a member that is missing takes the dataclass default, None;
\* a member that is there is stored as it came
ResultField(data) == IF data.result = AbsentKey THEN None ELSE data.result

AIJobOf(data) == [data EXCEPT !.result = ResultField(data)]

\* VerifiableComputeReceipt: the fields the caller can compare with the job's
VerifiableComputeReceipt(job_id, prov, r) ==
    [job_id |-> job_id, provider |-> prov, result |-> r]

\* D(**data) for the dataclasses of types.py
Construct(data) ==
    CASE data.type = "AIJob" -> AIJobOf(data)
      [] data.type = "VCR" ->
           VerifiableComputeReceipt(data.job_id, data.provider, data.result)
      [] OTHER -> data

\* the function goes on with the answer and runs to its end
FunctionRest(c, a) ==
    CASE c.args.shape = "raw" ->
           IF a = RpcError THEN RpcRaises(c) ELSE Out(c, Returned, a)
      [] c.args.shape = "discard" ->
           IF a = RpcError THEN RpcRaises(c) ELSE Out(c, Returned, NoneVal)
      [] c.args.shape = "swallow" ->
           Out(c, Returned, IF a = RpcError THEN NoneVal ELSE a)
      [] c.args.shape = "optional" ->
           Out(c, Returned,
               IF a \in {RpcError, NoneVal, Malformed} THEN NoneVal
               ELSE Construct(a))
      [] c.args.shape = "strict" ->
           IF a = RpcError THEN RpcRaises(c)
           ELSE IF a = Malformed THEN ConstructRaises(c)
           ELSE Out(c, Returned, IF a = NoneVal THEN NoneVal ELSE Construct(a))
      [] c.args.shape = "object" ->
           IF a = RpcError THEN RpcRaises(c)
           ELSE IF a = NoneVal THEN NoneRaises(c)
           ELSE Out(c, Returned, Construct(a))
      [] c.args.shape = "list" ->
           IF a = RpcError THEN RpcRaises(c)
           ELSE IF a = NoneVal THEN NoneRaises(c)
           ELSE Out(c, Returned,
                    [i \in 1..Len(a.items) |-> Construct(a.items[i])])
      [] c.args.shape = "nonce" ->
           IF a = RpcError THEN RpcRaises(c)
           ELSE IF a = NoneVal THEN NoneRaises(c)
           ELSE Out(c, Returned, a.nonce)
      [] c.args.shape = "balance" ->
           IF a = RpcError THEN RpcRaises(c)
           ELSE IF a = NoneVal THEN NoneRaises(c)
           ELSE Out(c, Returned, a.balance)
      [] c.args.shape = "healthy" -> Out(c, Returned, PyBool(a # RpcError))

\* one of the functions of a table is called
FunctionCall(table) ==
    /\ \E f \in table : Post(f.op, f, f.method, f.params)
    /\ UNCHANGED ret
    /\ CallFrame

\* the address and the hashes the calls made here are about
TheAddress == KeypairAddress(Keypair("alice"))
TheValidator == KeypairAddress(Keypair("bob"))
RawTx == Str(<<48, 120, 48, 49>>)
TheModel == Str(<<48, 120, 97, 98>>)
TheProposal == Small(1)

\* ---------------------------------------------------------- AetherClient
get_slot == Function("get_slot", "getSlot", <<>>, "raw")
get_block ==
    Function("get_block", "getBlock", <<Small(1), PyBool(FALSE)>>, "object")
get_block_by_hash ==
    Function("get_block_by_hash", "getBlockByHash", <<RawTx, PyBool(FALSE)>>,
             "object")
get_latest_block ==
    Function("get_latest_block", "getLatestBlock", <<>>, "object")
get_transaction ==
    Function("get_transaction", "getTransaction", <<RawTx>>, "strict")
get_account == Function("get_account", "getAccount", <<TheAddress>>, "object")
get_balance == Function("get_balance", "getAccount", <<TheAddress>>, "balance")
get_nonce == Function("get_nonce", "getAccount", <<TheAddress>>, "nonce")
send_raw_transaction ==
    Function("send_raw_transaction", "sendRawTransaction", <<RawTx>>, "raw")
GetTransactionReceipt ==
    Function("get_transaction_receipt", "getTransactionReceipt", <<RawTx>>,
             "strict")
estimate_gas ==
    Function("estimate_gas", "estimateGas",
             <<[t |-> "dict", from |-> TheAddress, to |-> TheValidator]>>, "raw")
is_healthy == Function("is_healthy", "getSlot", <<>>, "healthy")

ClientFunctions ==
    {get_slot, get_block, get_block_by_hash, get_latest_block, get_transaction,
     get_account, get_balance, get_nonce, send_raw_transaction,
     GetTransactionReceipt, estimate_gas, is_healthy}

\* ------------------------------------------- AIJobHelper and ModelHelper
GetJobFunction == Function("get_job", "ai_getJob", <<TheJob>>, "optional")
get_jobs_by_creator ==
    Function("get_jobs_by_creator", "ai_getJobsByCreator", <<TheAddress>>, "list")
get_pending_jobs ==
    Function("get_pending_jobs", "ai_getPendingJobs", <<>>, "list")
get_jobs_by_provider ==
    Function("get_jobs_by_provider", "ai_getJobsByProvider", <<TheValidator>>,
             "list")
get_vcr == Function("get_vcr", "ai_getVCR", <<TheJob>>, "optional")
get_job_stats == Function("get_job_stats", "ai_getJobStats", <<>>, "raw")
get_provider_reputation ==
    Function("get_provider_reputation", "ai_getProviderReputation",
             <<TheValidator>>, "raw")
register_model ==
    Function("register_model", "ai_registerModel", <<TheModel, [t |-> "dict"]>>,
             "discard")
get_model == Function("get_model", "ai_getModel", <<TheModel>>, "swallow")
list_models == Function("list_models", "ai_listModels", <<>>, "raw")

JobFunctions ==
    {GetJobFunction, get_jobs_by_creator, get_pending_jobs,
     get_jobs_by_provider, get_vcr, get_job_stats, get_provider_reputation,
     register_model, get_model, list_models}

\* AIJobHelper.get_job on the node's answer
GetJob(r) == IF r.type = "AIJob" THEN get_job(AIJobOf(r)) ELSE get_job(r)

\* --------------------------------------------------------- StakingHelper
get_validator ==
    Function("get_validator", "staking_getValidator", <<TheValidator>>,
             "optional")
get_validators ==
    Function("get_validators", "staking_getValidators", <<>>, "list")
get_delegation ==
    Function("get_delegation", "staking_getDelegation",
             <<TheAddress, TheValidator>>, "optional")
get_delegations ==
    Function("get_delegations", "staking_getDelegations", <<TheAddress>>, "list")
get_pending_rewards ==
    Function("get_pending_rewards", "staking_getPendingRewards", <<TheAddress>>,
             "raw")
get_total_stake ==
    Function("get_total_stake", "staking_getTotalStake", <<>>, "raw")
get_minimum_stake ==
    Function("get_minimum_stake", "staking_getMinimumStake", <<>>, "raw")

StakingFunctions ==
    {get_validator, get_validators, get_delegation, get_delegations,
     get_pending_rewards, get_total_stake, get_minimum_stake}

\* ------------------------------------------------------ GovernanceHelper
get_proposal ==
    Function("get_proposal", "governance_getProposal", <<TheProposal>>,
             "optional")
get_active_proposals ==
    Function("get_active_proposals", "governance_getActiveProposals", <<>>,
             "list")
get_all_proposals ==
    Function("get_all_proposals", "governance_getAllProposals", <<>>, "list")
get_vote ==
    Function("get_vote", "governance_getVote", <<TheProposal, TheAddress>>,
             "optional")
get_voting_power ==
    Function("get_voting_power", "governance_getVotingPower", <<TheAddress>>,
             "raw")
get_quorum == Function("get_quorum", "governance_getQuorum", <<>>, "raw")

\* has_quorum and get_proposal_status begin with `await self.get_proposal`
has_quorum ==
    Function("has_quorum", "governance_getProposal", <<TheProposal>>,
             "has_quorum")
get_proposal_status ==
    Function("get_proposal_status", "governance_getProposal", <<TheProposal>>,
             "get_proposal_status")

GovernanceFunctions ==
    {get_proposal, get_active_proposals, get_all_proposals, get_vote,
     get_voting_power, get_quorum, has_quorum, get_proposal_status}

\* GovernanceHelper.get_proposal on the node's answer
GetProposal(a) == IF a.type = "Proposal" THEN a ELSE NoneVal

\* total_votes >= quorum
QuorumReached(proposal, quorum) ==
    NatOf(proposal.votes_for.digits) + NatOf(proposal.votes_against.digits)
        >= NatOf(quorum.v.digits)

\* has_quorum after get_proposal, and after get_quorum
HasQuorumGo(c, a) ==
    IF c.step = 1
    THEN IF GetProposal(a) = NoneVal THEN End(Out(c, Returned, PyBool(FALSE)))
         ELSE Then("governance_getQuorum", <<>>,
                   [shape |-> "has_quorum", proposal |-> a])
    ELSE IF a = RpcError THEN End(RpcRaises(c))
    ELSE IF a = NoneVal THEN End(NoneRaises(c))
    ELSE End(Out(c, Returned, PyBool(QuorumReached(c.args.proposal, a))))

\* max(0, proposal.end_slot - current_slot)
TimeRemaining(proposal, current_slot) ==
    IF NatOf(proposal.end_slot.digits) > NatOf(current_slot.v.digits)
    THEN Small(NatOf(proposal.end_slot.digits) - NatOf(current_slot.v.digits))
    ELSE Small(0)

\* get_proposal_status once has_quorum has answered: the subtraction raises
\* TypeError when getSlot answered null
ProposalStatusOf(c, quorate) ==
    IF c.args.current_slot = NoneVal THEN End(NoneRaises(c))
    ELSE End(Out(c, Returned,
                 [type |-> "dict", status |-> "none",
                  proposal |-> c.args.proposal,
                  has_quorum |-> PyBool(quorate),
                  time_remaining |->
                      TimeRemaining(c.args.proposal, c.args.current_slot),
                  can_execute |-> PyBool(c.args.proposal.status = "passed")]))

\* get_proposal_status after get_proposal, after get_slot, and after the
\* get_proposal and the get_quorum of has_quorum
ProposalStatusGo(c, a) ==
    CASE c.step = 1 ->
           IF GetProposal(a) = NoneVal THEN End(Out(c, Returned, NoneVal))
           ELSE Then("getSlot", <<>>,
                     [shape |-> "get_proposal_status", proposal |-> a,
                      current_slot |-> NoneVal, second |-> NoneVal])
      [] c.step = 2 ->
           IF a = RpcError THEN End(RpcRaises(c))
           ELSE Then("governance_getProposal", <<TheProposal>>,
                     [c.args EXCEPT !.current_slot = a])
      [] c.step = 3 ->
           IF GetProposal(a) = NoneVal THEN ProposalStatusOf(c, FALSE)
           ELSE Then("governance_getQuorum", <<>>, [c.args EXCEPT !.second = a])
      [] c.step = 4 ->
           IF a = RpcError THEN End(RpcRaises(c))
           ELSE IF a = NoneVal THEN End(NoneRaises(c))
           ELSE ProposalStatusOf(c, QuorumReached(c.args.second, a))

\* --------------------------------- functions that sign a call transaction
\* TransactionBuilder.call(self.keypair.address, contract, data, nonce,
\* value).sign(self.keypair), once the call data is encoded
SignedCall(kp, contract, data, nonce, value) ==
    IF ~data.ok THEN [exc |-> data.exc, tx |-> None]
    ELSE sign(SetOnce(KeypairAddress(kp), contract, value, data.b, nonce),
              kp.key)

\* a function that checks its arguments, awaits get_nonce, encodes the call
\* data and signs the call transaction: the helper's keypair, the message of
\* the check that rejects the arguments ("none" when none does), the contract,
\* what the encoder gives, the value, and the arguments
Signs(op, kp, rejected, contract, data, value, args) ==
    [op |-> op, shape |-> "signed", keypair |-> kp, rejected |-> rejected,
     contract |-> contract, data |-> data, value |-> value, args |-> args]

\* `if not self.keypair: raise ValueError(...)`
KeypairRequired ==
    Raise("ValueError", "Keypair required for signing transactions")

\* the function ended without a request, or after its getAccount request
SignedOut(f, id, calls, o, v) ==
    [op |-> f.op, outcome |-> o, value |-> v, args |-> f.args, calls |-> calls,
     id |-> id]

\* the function goes on after get_nonce: Account(**data), the call data is
\* encoded, the transaction is built with the node's nonce and signed
SignedRest(c, a) ==
    IF a = RpcError
    THEN SignedOut(c.args, c.id, c.step, Raise("Exception", "rpc"), None)
    ELSE IF a = NoneVal
    THEN SignedOut(c.args, c.id, c.step, Raise("TypeError", "NoneType"), None)
    ELSE SignedOut(c.args, c.id, c.step,
                   SignedCall(c.args.keypair, c.args.contract, c.args.data,
                              a.nonce, c.args.value).exc,
                   SignedCall(c.args.keypair, c.args.contract, c.args.data,
                              a.nonce, c.args.value).tx)

\* one of the signing functions of a table is called: the keypair check, the
\* argument checks, then get_nonce posts getAccount
SignedFunctionCall(table) ==
    /\ \E f \in table :
         IF f.keypair = None
         THEN /\ ret' = SignedOut(f, 0, 0, KeypairRequired, None)
              /\ UNCHANGED <<request_id, sent, flight>>
         ELSE IF f.rejected # "none"
         THEN /\ ret' = SignedOut(f, 0, 0, Raise("ValueError", f.rejected), None)
              /\ UNCHANGED <<request_id, sent, flight>>
         ELSE /\ Post(f.op, f, "getAccount", <<KeypairAddress(f.keypair)>>)
              /\ UNCHANGED ret
    /\ CallFrame

\* the helper's keypair: none, or the one made from the seed "alice"
HelperKeypairs == {None, Keypair("alice")}
TheKeypair == Keypair("alice")

\* the arguments of the submit_job calls made here: a helper without keypair,
\* the amounts 0, 1 and 2^64, the model hashes "0xab", "0xzz" and "0xab cd"
ModelHashes ==
    {Str(<<48, 120, 97, 98>>), Str(<<48, 120, 122, 122>>),
     Str(<<48, 120, 97, 98, 32, 99, 100>>)}
AicAmounts == {Small(0), Small(1), PowOf(8)}
SubmitJobInputs ==
    {<<None, Small(1), TheModel>>}
    \cup {<<TheKeypair, amount, TheModel>> : amount \in AicAmounts}
    \cup {<<TheKeypair, Small(1), mh>> : mh \in ModelHashes}

\* AIJobHelper.submit_job(model_hash, input_data, aic_amount)
submit_job ==
    {Signs("submit_job", in[1],
           IF AtMostZero(in[2]) THEN "AIC amount must be positive" ELSE "none",
           JOB_ESCROW_CONTRACT, _encode_job_submission(in[3], Bytes(<<1>>)),
           in[2],
           [keypair |-> in[1], aic_amount |-> in[2], model_hash |-> in[3],
            input_data |-> Bytes(<<1>>)]) : in \in SubmitJobInputs}

\* AIJobHelper.accept_job(job_id)
accept_job ==
    {Signs("accept_job", kp, "none", JOB_ESCROW_CONTRACT,
           _encode_call(Str(<<97, 99, 99, 101, 112, 116, 74, 111, 98>>), <<TheJob>>), Small(0),
           [job_id |-> TheJob]) : kp \in HelperKeypairs}

\* AIJobHelper.submit_result(job_id, result, vcr)
submit_result ==
    {Signs("submit_result", kp, "none", JOB_ESCROW_CONTRACT,
           _encode_result_submission(TheJob, Bytes(<<1>>)), Small(0),
           [job_id |-> TheJob, result |-> Bytes(<<1>>)]) : kp \in HelperKeypairs}

\* the stakes given to challenge_result
ChallengeStakes == {Small(0), Small(1)}
ChallengeInputs ==
    {<<None, Small(1)>>} \cup {<<TheKeypair, stake>> : stake \in ChallengeStakes}

\* AIJobHelper.challenge_result(job_id, challenge_stake)
challenge_result ==
    {Signs("challenge_result", in[1],
           IF AtMostZero(in[2]) THEN "Challenge stake must be positive"
           ELSE "none",
           JOB_ESCROW_CONTRACT,
           _encode_call(Str(<<99, 104, 97, 108, 108, 101, 110, 103, 101, 82,
               101, 115, 117, 108, 116>>), <<TheJob>>), in[2],
           [job_id |-> TheJob, challenge_stake |-> in[2]]) :
        in \in ChallengeInputs}

\* AIJobHelper.claim_payment(job_id)
claim_payment ==
    {Signs("claim_payment", kp, "none", JOB_ESCROW_CONTRACT,
           _encode_call(Str(<<99, 108, 97, 105, 109, 80, 97, 121, 109, 101,
               110, 116>>), <<TheJob>>), Small(0),
           [job_id |-> TheJob]) : kp \in HelperKeypairs}

JobSigns ==
    submit_job \cup accept_job \cup submit_result \cup challenge_result
    \cup claim_payment

\* commission < 0 or commission > 10000
CommissionOutOfRange(v) ==
    v.neg \/ Len(v.digits) > 2 \/ NatOf(v.digits) > 10000

\* the commissions given to register_validator: -1, 500 and 10001
Commissions == {MinusOne, ConfigInt(500), ConfigInt(10001)}
RegisterInputs ==
    {<<None, ConfigInt(500)>>}
    \cup {<<TheKeypair, commission>> : commission \in Commissions}

\* StakingHelper.register_validator(stake, commission)
register_validator ==
    {Signs("register_validator", in[1],
           IF CommissionOutOfRange(in[2])
           THEN "Commission must be between 0 and 10000 basis points" ELSE "none",
           STAKING_CONTRACT,
           _encode_call(Str(<<114, 101, 103, 105, 115, 116, 101, 114, 86, 97,
               108, 105, 100, 97, 116, 111, 114>>), <<in[2]>>), Small(1),
           [stake |-> Small(1), commission |-> in[2]]) : in \in RegisterInputs}

\* StakingHelper.delegate(validator, amount)
delegate ==
    {Signs("delegate", kp, "none", STAKING_CONTRACT,
           _encode_call(Str(<<100, 101, 108, 101, 103, 97, 116, 101>>), <<TheValidator>>), Small(1),
           [validator |-> TheValidator, amount |-> Small(1)]) :
        kp \in HelperKeypairs}

\* StakingHelper.undelegate(validator, amount)
undelegate ==
    {Signs("undelegate", kp, "none", STAKING_CONTRACT,
           _encode_call(Str(<<117, 110, 100, 101, 108, 101, 103, 97, 116,
               101>>), <<TheValidator, Small(1)>>),
           Small(0), [validator |-> TheValidator, amount |-> Small(1)]) :
        kp \in HelperKeypairs}

\* StakingHelper.claim_rewards()
claim_rewards ==
    {Signs("claim_rewards", kp, "none", STAKING_CONTRACT,
           _encode_call(Str(<<99, 108, 97, 105, 109, 82, 101, 119, 97, 114,
               100, 115>>), <<>>), Small(0),
           [none |-> None]) : kp \in HelperKeypairs}

StakingSigns == register_validator \cup delegate \cup undelegate \cup claim_rewards

\* the titles given to create_proposal: none, one and 257 characters; the
\* descriptions: none and one character
Titles == {Str(<<>>), Str(<<116>>), Str([i \in 1..257 |-> 116])}
Descriptions == {Str(<<>>), Str(<<100>>)}
ProposalInputs ==
    {<<None, Str(<<116>>), Str(<<100>>)>>}
    \cup {<<TheKeypair, title, Str(<<100>>)>> : title \in Titles}
    \cup {<<TheKeypair, Str(<<116>>), description>> :
              description \in Descriptions}

\* not 1 <= len(title) <= 256, not 1 <= len(description) <= 10000
ProposalRejected(title, description) ==
    IF Len(title.s) < 1 \/ Len(title.s) > 256
    THEN "Title must be between 1 and 256 characters"
    ELSE IF Len(description.s) < 1 \/ Len(description.s) > 10000
    THEN "Description must be between 1 and 10000 characters"
    ELSE "none"

\* GovernanceHelper.create_proposal(title, description, duration=100800)
create_proposal ==
    {Signs("create_proposal", in[1], ProposalRejected(in[2], in[3]),
           GOVERNANCE_CONTRACT,
           _encode_call(Str(<<99, 114, 101, 97, 116, 101, 80, 114, 111, 112, 111, 115, 97, 108>>),
                        <<in[2], in[3], ConfigInt(100800)>>),
           Small(0), [title |-> in[2], description |-> in[3]]) :
        in \in ProposalInputs}

\* GovernanceHelper.vote(proposal_id, support)
vote ==
    {Signs("vote", kp, "none", GOVERNANCE_CONTRACT,
           _encode_call(Str(<<118, 111, 116, 101>>), <<TheProposal, PyBool(TRUE)>>),
           Small(0), [proposal_id |-> TheProposal, support |-> PyBool(TRUE)]) :
        kp \in HelperKeypairs}

GovernanceSigns == create_proposal \cup vote

\* GovernanceHelper.execute_proposal(proposal_id): what it signs once the
\* proposal is found passed
execute_proposal ==
    {Signs("execute_proposal", kp, "none", GOVERNANCE_CONTRACT,
           _encode_call(Str(<<101, 120, 101, 99, 117, 116, 101, 80, 114, 111,
               112, 111, 115, 97, 108>>), <<TheProposal>>), Small(0),
           [proposal_id |-> TheProposal]) : kp \in HelperKeypairs}

\* execute_proposal is called: the keypair check, then get_proposal posts
ExecuteProposalCall ==
    /\ \E f \in execute_proposal :
         IF f.keypair = None
         THEN /\ ret' = SignedOut(f, 0, 0, KeypairRequired, None)
              /\ UNCHANGED <<request_id, sent, flight>>
         ELSE /\ Post(f.op, f, "governance_getProposal", <<TheProposal>>)
              /\ UNCHANGED ret
    /\ CallFrame

\* execute_proposal after get_proposal: a proposal that is not found or not
\* passed raises, a passed one goes on to get_nonce; and after get_nonce
ExecuteProposalGo(c, a) ==
    IF c.step = 1
    THEN IF GetProposal(a) = NoneVal
         THEN End(SignedOut(c.args, c.id, c.step,
                            Raise("ValueError", "Proposal not found"), None))
         ELSE IF a.status # "passed"
         THEN End(SignedOut(c.args, c.id, c.step,
                            Raise("ValueError", "Proposal must be in passed state"),
                            None))
         ELSE Then("getAccount", <<KeypairAddress(c.args.keypair)>>, c.args)
    ELSE End(SignedRest(c, a))

\* ------------------------------------------------------------ verify_vcr
\* the bytes-typed fields of a VCR hold bytes when the caller built it as
\* types.py declares, and the JSON string the node sent when get_vcr built it
\* with VerifiableComputeReceipt(**data); `result` stands for them
VcrResults == {Bytes(<<1>>), Str(<<48, 120, 48, 49>>)}

\* json.dumps of the payload, done by the post before anything is sent: a
\* bytes object is not JSON serializable
JsonEncodable(vcr) == vcr.result.t # "bytes"

\* AIJobHelper.verify_vcr(vcr): vcr.__dict__ is handed to _call as it is, with
\* no local check; _call takes the next id, and the post either raises
\* TypeError while encoding the payload or sends it
VerifyVcrCall ==
    /\ \E vid \in JobIds, vp \in Providers, r \in VcrResults :
         LET vcr == VerifiableComputeReceipt(vid, vp, r)
         IN IF JsonEncodable(vcr)
            THEN /\ Post("verify_vcr", [shape |-> "verify_vcr", vcr |-> vcr],
                         "ai_verifyVCR", <<vcr>>)
                 /\ UNCHANGED ret
            ELSE /\ TakeId
                 /\ ret' = [op |-> "verify_vcr",
                            outcome |-> Raise("TypeError", "not JSON serializable"),
                            value |-> None, vcr |-> vcr]
                 /\ UNCHANGED <<sent, flight>>
    /\ CallFrame

\* the node's answer is handed back; _call's exception propagates
VerifyVcrRest(c, a) ==
    [op |-> "verify_vcr",
     outcome |-> IF a = RpcError THEN Raise("Exception", "rpc") ELSE Returned,
     value |-> IF a = RpcError THEN None ELSE a,
     vcr |-> c.args.vcr, id |-> c.id]

\* ------------------------------------------------------------- the waits
\* the wait leaves its loop because the time is up
WaitTimedOut(op, id) ==
    [op |-> op, outcome |-> DeadlineError, value |-> None, answer |-> NoneVal,
     id |-> id]

\* a wait and the request its loop posts on every pass
wait_for_job_completion ==
    Function("wait_for_job_completion", "ai_getJob", <<TheJob>>, "wait")
wait_for_transaction ==
    Function("wait_for_transaction", "getTransactionReceipt", <<RawTx>>, "wait")

\* a wait is called: with a timeout above zero the loop is entered and the
\* first probe is posted, with any other the function raises TimeoutError at
\* once
WaitCall(f) ==
    /\ \E timeLeft \in BOOLEAN :
         IF timeLeft
         THEN /\ Post(f.op, f, f.method, f.params)
              /\ UNCHANGED ret
         ELSE /\ ret' = WaitTimedOut(f.op, 0)
              /\ UNCHANGED <<request_id, sent, flight>>
    /\ CallFrame

\* the loop body on the probe's answer: it returns, raises, or goes on to the
\* sleep
WaitRest(c, a) ==
    LET got == IF c.op = "wait_for_job_completion" THEN GetJob(a)
               ELSE get_transaction_receipt(a)
        body == IF c.op = "wait_for_job_completion" THEN JobBody(got)
                ELSE TxBody(got)
    IN IF body.act = "sleep" THEN Sleeps
       ELSE End([op |-> c.op, outcome |-> body.exc,
                 value |-> IF body.act = "return" THEN got ELSE None,
                 answer |-> a, id |-> c.id])

\* AetherClient._call under the id a function already running takes for its
\* next request
FollowUp(method, params) == CallWithin(MaxCalls + MaxFollow, method, params)

\* the sleep is over and time is left: the loop posts the next probe, under
\* the client's next id
WaitProbe ==
    /\ \E i \in 1..Len(flight) :
         /\ flight[i].at = "sleep"
         /\ FollowUp(flight[i].method, flight[i].params)
         /\ flight' = [flight EXCEPT ![i] =
                          InFlightCall(Increment(request_id), flight[i].op,
                                       flight[i].args, flight[i].method,
                                       flight[i].params, flight[i].step + 1)]
    /\ UNCHANGED ret
    /\ CallFrame

\* the sleep is over and the time is up: the loop ends, TimeoutError
WaitTimeout ==
    /\ \E i \in 1..Len(flight) :
         /\ flight[i].at = "sleep"
         /\ ret' = WaitTimedOut(flight[i].op, flight[i].id)
         /\ flight' = Resumed(flight, i)
    /\ UNCHANGED <<request_id, sent>>
    /\ CallFrame

\* ---------------------------------------------------- send_transaction
\* AetherClient.send_transaction of the Transaction the caller kept: the
\* envelope is posted
SendTransactionCall ==
    /\ OnTransactionBuilder
    /\ held # None
    /\ Post("send_transaction", [shape |-> "send_transaction", tx |-> held],
            "sendTransaction", <<Envelope(held)>>)
    /\ UNCHANGED <<ret, tb, xb, held, submits, closed>>
    /\ UNCHANGED waitlocal

\* `return await self._call("sendTransaction", [tx_dict])`
SendTransactionRest(c, a) ==
    [op |-> "send_transaction",
     outcome |-> IF a = RpcError THEN Raise("Exception", "rpc") ELSE Returned,
     value |-> IF a = RpcError THEN None
               ELSE IF a = NoneVal THEN NoneVal ELSE a.hash,
     tx |-> c.args.tx, id |-> c.id]

\* ------------------------------------------------------ an answer arrives
\* what the suspended function does with the answer
Go(c, a) ==
    CASE c.args.shape = "wait" -> WaitRest(c, a)
      [] c.args.shape = "verify_vcr" -> End(VerifyVcrRest(c, a))
      [] c.args.shape = "send_transaction" -> End(SendTransactionRest(c, a))
      [] c.args.shape = "has_quorum" -> HasQuorumGo(c, a)
      [] c.args.shape = "get_proposal_status" -> ProposalStatusGo(c, a)
      [] c.args.shape = "signed" ->
           IF c.op = "execute_proposal" THEN ExecuteProposalGo(c, a)
           ELSE End(SignedRest(c, a))
      [] OTHER -> End(FunctionRest(c, a))

\* the answer to any one of the posted requests arrives, in any order: the
\* function runs to its end, to the sleep of its loop, or to the post of its
\* next request
CallReturn ==
    /\ \E i \in 1..Len(flight) : \E a \in Answers(flight[i]) :
         /\ flight[i].at = "post"
         /\ CASE Go(flight[i], a).act = "end" ->
                   /\ ret' = Go(flight[i], a).ret
                   /\ flight' = Resumed(flight, i)
                   /\ UNCHANGED <<request_id, sent>>
              [] Go(flight[i], a).act = "sleep" ->
                   /\ flight' = [flight EXCEPT ![i] = Asleep(flight[i])]
                   /\ UNCHANGED <<ret, request_id, sent>>
              [] Go(flight[i], a).act = "post" ->
                   /\ FollowUp(Go(flight[i], a).method, Go(flight[i], a).params)
                   /\ flight' = [flight EXCEPT ![i] =
                          InFlightCall(Increment(request_id), flight[i].op,
                                       Go(flight[i], a).args,
                                       Go(flight[i], a).method,
                                       Go(flight[i], a).params,
                                       flight[i].step + 1)]
                   /\ UNCHANGED ret
    /\ CallFrame

\* the functions of AetherClient, called as tasks on one client
ClientCall == FunctionCall(ClientFunctions)
WaitForTransactionCall == WaitCall(wait_for_transaction)

\* every function of AetherClient on one client: a transfer is built, signed,
\* kept and sent while the other functions are called and suspended
NextClient ==
    \/ TbTransfer
    \/ TbSign
    \/ Keep
    \/ SendTransactionCall
    \/ ClientCall
    \/ WaitForTransactionCall
    \/ WaitProbe
    \/ WaitTimeout
    \/ CallReturn

SpecClient == Init /\ [][NextClient]_vars

\* the functions of AIJobHelper and ModelHelper, called as tasks on one
\* client together with the functions of the client itself
JobCall == FunctionCall(JobFunctions)
JobSignedCall == SignedFunctionCall(JobSigns)
WaitForJobCompletionCall == WaitCall(wait_for_job_completion)

NextJob ==
    \/ JobCall
    \/ JobSignedCall
    \/ VerifyVcrCall
    \/ WaitForJobCompletionCall
    \/ WaitProbe
    \/ WaitTimeout
    \/ ClientCall
    \/ CallReturn

SpecJob == Init /\ [][NextJob]_vars

\* the functions of StakingHelper, called as tasks on one client together
\* with the functions of the client itself
StakingCall == FunctionCall(StakingFunctions)
StakingSignedCall == SignedFunctionCall(StakingSigns)

NextStaking ==
    \/ StakingCall
    \/ StakingSignedCall
    \/ ClientCall
    \/ CallReturn

SpecStaking == Init /\ [][NextStaking]_vars

\* the functions of GovernanceHelper, called as tasks on one client together
\* with the functions of the client itself
GovernanceCall == FunctionCall(GovernanceFunctions)
GovernanceSignedCall == SignedFunctionCall(GovernanceSigns)

NextGovernance ==
    \/ GovernanceCall
    \/ GovernanceSignedCall
    \/ ExecuteProposalCall
    \/ ClientCall
    \/ CallReturn

SpecGovernance == Init /\ [][NextGovernance]_vars

\* TransactionBuilder.nonce(1): the builder is moved on to the next nonce
TbNonceNext ==
    /\ OnTransactionBuilder
    /\ tb' = [tb EXCEPT !.nonce = Small(1)]
    /\ SetterReturns
    /\ UNCHANGED held
    /\ TbFrame

\* AetherClient.get_nonce and AetherClient.get_slot called on their own
GetNonceCall == FunctionCall({get_nonce})
GetSlotCall == FunctionCall({get_slot})

\* a transfer is prepared, signed, kept and sent, with later setter calls and
\* signs on the builder and other calls of the client while it is in flight
NextSend ==
    \/ TbTransfer
    \/ TbNonceNext
    \/ TbData
    \/ TbSign
    \/ Keep
    \/ SendTransactionCall
    \/ GetNonceCall
    \/ GetSlotCall
    \/ CallReturn

SpecSend == Init /\ [][NextSend]_vars

\* ============================== examples/05_batch_jobs.py: the first gather
\* main's keypair, model hash and prompts, and the amount of every job
ExampleKeypair == Keypair("my seed phrase")
ExampleModelHash ==
    Str(<<48, 120, 49, 50, 51, 52, 53, 54, 55, 56, 57, 48, 97, 98, 99, 100,
        101, 102, 49, 50, 51, 52, 53, 54, 55, 56, 57, 48, 97, 98, 99, 100,
        101, 102, 49, 50, 51, 52, 53, 54, 55, 56, 57, 48, 97, 98, 99, 100,
        101, 102, 49, 50, 51, 52, 53, 54, 55, 56, 57, 48, 97, 98, 99, 100,
        101, 102>>)
Prompts ==
    <<Str(<<83, 117, 109, 109, 97, 114, 105, 122, 101, 32, 98, 108, 111, 99,
        107, 99, 104, 97, 105, 110, 32, 116, 101, 99, 104, 110, 111, 108,
        111, 103, 121>>),
      Str(<<69, 120, 112, 108, 97, 105, 110, 32, 115, 109, 97, 114, 116, 32,
          99, 111, 110, 116, 114, 97, 99, 116, 115>>)>>
ExampleAmount == ConfigInt(50000)

\* json.dumps({"prompt": prompt}).encode()
ExampleInput(prompt) ==
    Bytes(Encode(Str(<<123, 34, 112, 114, 111, 109, 112, 116, 34, 58,
        32>> \o JsonString(prompt) \o <<125>>)))

\* the arguments of the ai.submit_job call of task t
ExampleArgs(t) ==
    [keypair |-> ExampleKeypair, aic_amount |-> ExampleAmount,
     model_hash |-> ExampleModelHash, input_data |-> ExampleInput(Prompts[t])]

\* AIJobHelper.submit_job after get_nonce: the call data is encoded, the
\* transaction is built with the nonce the node answered and signed
SubmitJobRest(args, account) ==
    SignedCall(args.keypair, JOB_ESCROW_CONTRACT,
               _encode_job_submission(args.model_hash, args.input_data),
               account.nonce, args.aic_amount)

\* a task of the gather, the example's submit_job: the await it is suspended
\* in, the id of the request it waits for, the id of the request of its
\* ai.submit_job call, the Transaction that call returned, the hash
\* send_transaction returned, and how the task ended
Task(p, id, job_req, tx, tx_hash, exc, v) ==
    [pc |-> p, id |-> id, job_req |-> job_req, tx |-> tx, tx_hash |-> tx_hash,
     outcome |-> exc, value |-> v]

\* what no task touches
TaskFrame == UNCHANGED <<ret, tb, xb, held, closed, flight>> /\ UNCHANGED waitlocal

\* the task ends: it returns or raises
TaskEnds(t, exc, v) ==
    /\ submits' = [submits EXCEPT ![t] =
                      [submits[t] EXCEPT !.pc = "done", !.id = 0,
                                         !.outcome = exc, !.value = v]]
    /\ UNCHANGED <<request_id, sent>>

\* httpx refuses a request on a client that has been closed
ClosedError == Raise("RuntimeError", "closed")

\* AetherClient._call on the closed client: the counter is incremented, the
\* post raises RuntimeError before anything is sent, and the `except
\* httpx.HTTPError` of _call does not catch it: the task ends with it, holding
\* what it had bound before the call
TaskRefused(t, tx, tx_hash) ==
    /\ request_id' = Increment(request_id)
    /\ UNCHANGED sent
    /\ submits' = [submits EXCEPT ![t] =
                      Task("done", 0, submits[t].job_req, tx, tx_hash,
                           ClosedError, None)]

\* the task makes its next call on the client: while the client is open the
\* request is posted and the task is suspended at p
TaskPosts(t, p, method, params, job_req, tx, tx_hash) ==
    IF closed
    THEN TaskRefused(t, tx, tx_hash)
    ELSE /\ CallWithin(MaxBatchCalls, method, params)
         /\ submits' = [submits EXCEPT ![t] =
                           Task(p, Increment(request_id), job_req, tx, tx_hash,
                                NoOutcome, None)]

\* gather has made a task of every coroutine, and the event loop runs each to
\* its first await, in order, before it handles any answer
AllStarted == \A u \in SubmitTasks : submits[u].pc # "idle"

\* a task has raised: gather hands the exception to main, which leaves the
\* `async with` and ends; gather does not stop the other tasks, which run on
\* until asyncio.run cancels those still suspended
SomeTaskRaised ==
    \E u \in SubmitTasks : submits[u].pc = "done" /\ submits[u].outcome # Returned

\* asyncio.run has cancelled the tasks that were left: it cancels them all
\* before the loop runs again, so none of them handles a further answer
Cancelling ==
    \E u \in SubmitTasks :
        submits[u].pc = "done" /\ submits[u].outcome.kind = "CancelledError"

\* the answer a task waits for is handled: every task has started and the
\* loop still runs, whether or not another task has raised or the client has
\* been closed
Resumes(t, p) == AllStarted /\ ~Cancelling /\ submits[t].pc = p

\* main leaves the `async with` with the exception gather raised:
\* AetherClient.__aexit__ awaits close(), which closes the http client. The
\* answers handled in the loop passes before it are handled on the open
\* client, those handled after it on the closed one
MainLeaves ==
    /\ SomeTaskRaised
    /\ ~closed
    /\ ~Cancelling
    /\ closed' = TRUE
    /\ UNCHANGED <<request_id, sent, submits, ret, tb, xb, held, flight>>
    /\ UNCHANGED waitlocal

\* line 19: the task starts and client.get_nonce posts getAccount
TaskStart(t) ==
    /\ submits[t].pc = "idle"
    /\ \A u \in SubmitTasks : u < t => submits[u].pc # "idle"
    /\ TaskPosts(t, "get_nonce", "getAccount",
                 <<KeypairAddress(ExampleKeypair)>>, 0, None, None)
    /\ TaskFrame

\* lines 19-20: get_nonce returns, its value is dropped, and ai.submit_job
\* passes its two checks and posts getAccount again
TaskGetNonce(t) ==
    /\ Resumes(t, "get_nonce")
    /\ \E a \in AccountAnswers :
         IF a = RpcError THEN TaskEnds(t, Raise("Exception", "rpc"), None)
         ELSE IF a = NoneVal THEN TaskEnds(t, Raise("TypeError", "NoneType"), None)
         ELSE TaskPosts(t, "submit_job", "getAccount",
                        <<KeypairAddress(ExampleKeypair)>>,
                        Increment(request_id), None, None)
    /\ TaskFrame

\* lines 20-22: submit_job signs the transaction with the nonce answered and
\* returns it, and client.send_transaction posts its envelope
TaskSubmitJob(t) ==
    /\ Resumes(t, "submit_job")
    /\ \E a \in AccountAnswers :
         IF a = RpcError THEN TaskEnds(t, Raise("Exception", "rpc"), None)
         ELSE IF a = NoneVal THEN TaskEnds(t, Raise("TypeError", "NoneType"), None)
         ELSE IF SubmitJobRest(ExampleArgs(t), a).exc # Returned
         THEN TaskEnds(t, SubmitJobRest(ExampleArgs(t), a).exc, None)
         ELSE TaskPosts(t, "send_transaction", "sendTransaction",
                        <<Envelope(SubmitJobRest(ExampleArgs(t), a).tx)>>,
                        submits[t].job_req,
                        SubmitJobRest(ExampleArgs(t), a).tx, None)
    /\ TaskFrame

\* lines 22-25: send_transaction returns the node's answer, and
\* client.wait_for_transaction enters its loop and posts the first probe
TaskSendTransaction(t) ==
    /\ Resumes(t, "send_transaction")
    /\ \E a \in {RpcError, NoneVal, HashOf(submits[t].tx.hash)} :
         IF a = RpcError THEN TaskEnds(t, Raise("Exception", "rpc"), None)
         ELSE LET tx_hash == IF a = NoneVal THEN NoneVal ELSE a.hash
              IN TaskPosts(t, "wait_for_transaction", "getTransactionReceipt",
                           <<tx_hash>>, submits[t].job_req, submits[t].tx,
                           tx_hash)
    /\ TaskFrame

\* lines 25-26: the probe's answer: a receipt ends the wait and the task
\* returns, an RPC error raises, no receipt yet leads to the sleep
TaskProbe(t) ==
    /\ Resumes(t, "wait_for_transaction")
    /\ \E a \in RpcResults("tx") :
         CASE TxBody(get_transaction_receipt(a)).act = "raise" ->
                TaskEnds(t, TxBody(get_transaction_receipt(a)).exc, None)
           [] TxBody(get_transaction_receipt(a)).act = "return" ->
                TaskEnds(t, Returned,
                         [job_id |-> submits[t].tx.hash, prompt |-> Prompts[t],
                          index |-> t - 1])
           [] TxBody(get_transaction_receipt(a)).act = "sleep" ->
                /\ submits' = [submits EXCEPT ![t].pc = "sleep", ![t].id = 0]
                /\ UNCHANGED <<request_id, sent>>
    /\ TaskFrame

\* the sleep is over: with time left the loop makes the next probe's call, with
\* none the wait raises TimeoutError
TaskWake(t) ==
    /\ Resumes(t, "sleep")
    /\ \E timeLeft \in BOOLEAN :
         IF timeLeft
         THEN TaskPosts(t, "wait_for_transaction", "getTransactionReceipt",
                        <<submits[t].tx_hash>>, submits[t].job_req,
                        submits[t].tx, submits[t].tx_hash)
         ELSE TaskEnds(t, DeadlineError, None)
    /\ TaskFrame

\* a task has raised, main has left the `async with` and ended, and
\* asyncio.run cancels a task that is still suspended
TaskCancelled(t) ==
    /\ submits[t].pc \notin {"idle", "done"}
    /\ SomeTaskRaised
    /\ closed
    /\ TaskEnds(t, Raise("CancelledError", "cancelled"), None)
    /\ TaskFrame

\* the tasks of the example's first gather on one client
NextSubmit ==
    \/ \E t \in SubmitTasks : TaskStart(t)
    \/ \E t \in SubmitTasks : TaskGetNonce(t)
    \/ \E t \in SubmitTasks : TaskSubmitJob(t)
    \/ \E t \in SubmitTasks : TaskSendTransaction(t)
    \/ \E t \in SubmitTasks : TaskProbe(t)
    \/ \E t \in SubmitTasks : TaskWake(t)
    \/ MainLeaves
    \/ \E t \in SubmitTasks : TaskCancelled(t)

SpecSubmit == Init /\ [][NextSubmit]_vars

\* ================================================================== claims
\* C11: a wait that observes a completed job whose result bytes are absent
\* returns that job with status completed and a result field that is present
\* but empty, never absent.
C11_CompletedHasEmptyResult ==
    (/\ ret.op = "wait_for_job_completion"
     /\ ret.answer.type = "AIJob"
     /\ ret.answer.status = "completed"
     /\ ret.answer.result \in {AbsentKey, None})
    => /\ ret.outcome = Returned
       /\ ret.value.status = "completed"
       /\ ret.value.result = Bytes(<<>>)

\* the AIJob a VCR is presented for
PresentedFor == AIJobOf(JobData(TheJob, "completed", TheProvider, Bytes(<<1>>)))

\* C13: a VCR whose job_id or provider differs from the job it is presented
\* for is rejected locally: no ai_verifyVCR request is posted for it.
C13_MismatchedVcrNotSent ==
    \A i \in 1..Len(sent) :
        sent[i].method = "ai_verifyVCR"
        => /\ sent[i].params[1].job_id = PresentedFor.id
           /\ sent[i].params[1].provider = PresentedFor.provider

\* the arguments a submit_job call must reject
OutOfRange64(v) == v.neg \/ Len(v.digits) > 8
InvalidHex(mh) == ~FromHex(SubSeq(mh.s, 3, Len(mh.s))).ok

InvalidSubmit(args) ==
    \/ args.keypair = None
    \/ AtMostZero(args.aic_amount)
    \/ InvalidHex(args.model_hash)
    \/ OutOfRange64(args.aic_amount)

\* C24: submit_job called with no keypair, a non-positive aic_amount, a
\* model_hash that is not hex, or an amount outside the 64-bit range raises
\* without having issued any RPC call.
C24_InvalidRejectedBeforeRpc ==
    (ret.op = "submit_job" /\ InvalidSubmit(ret.args))
    => /\ ret.outcome # Returned
       /\ ret.calls = 0

\* no sendTransaction request was posted before the n-th request
NoSendBefore(n) ==
    \A i \in 1..Len(sent) : sent[i].method = "sendTransaction" => i > n

\* C27: submit_job calls for the same keypair that run concurrently on one
\* client, none of their transactions submitted yet, return transactions with
\* pairwise distinct nonces.
C27_ConcurrentNoncesDistinct ==
    \A t \in SubmitTasks, u \in SubmitTasks :
        ( /\ t # u
          /\ submits[t].pc # "idle" /\ submits[u].pc # "idle"
          /\ submits[t].tx # None /\ submits[u].tx # None
          /\ NoSendBefore(submits[t].job_req)
          /\ NoSendBefore(submits[u].job_req) )
        => submits[t].tx.nonce # submits[u].tx.nonce

\* the calls the closed client refused: each took an id and sent nothing
Refused ==
    Cardinality({t \in SubmitTasks :
                    submits[t].pc = "done" /\ submits[t].outcome = ClosedError})

\* C28: the JSON-RPC requests of one client carry the ids 1, 2, 3, ... in the
\* order they were issued, whatever calls are still in flight, so no two
\* requests have the same id; the counter is past every id issued, the ids of
\* the calls a closed client refused included.
C28_RequestIdsIncrease ==
    /\ \A i \in 1..Len(sent) : sent[i].id = i
    /\ request_id = Len(sent) + Refused

\* one task has posted its sendTransaction, the fifth request of the client,
\* while the submit_job of the other still waits for its nonce
C28_Witness ==
    /\ Len(sent) = 5
    /\ sent[5].method = "sendTransaction"
    /\ \E t \in SubmitTasks : submits[t].pc = "submit_job"

====
